---- MODULE Spec2Model ----
(***************************************************************************)
(* TLS connection multiplexing engine of idfix-protocols: TLSServer (the   *)
(* facade, the select() loop and the drain in stopTask) and TLSSocket (the *)
(* connection), together with the threads that drive them.                 *)
(*                                                                         *)
(* Threads: "loop" runs TLSServer::run() and then TLSServer::stopTask();   *)
(* "user" is any other thread calling listen(), shutdown() and, through a  *)
(* shared pointer obtained from the weak pointer handed to                 *)
(* tlsNewConnection, close() and write(). The sink may attach its handler  *)
(* (setEventHandler) inside tlsNewConnection.                              *)
(* Method calls are frames on a per-thread call stack; one action is one   *)
(* stretch of code between two lock operations or blocking calls.          *)
(*                                                                         *)
(* Specifications: Spec (the application thread also closes and writes,    *)
(* MaxAppConns clients), SpecServer (the application only calls listen and *)
(* shutdown, MaxConns clients), SpecEcho (one exchange per client),        *)
(* SpecFair (Spec with fair scheduling of both threads), SpecReadFault     *)
(* (SpecEcho with a TLS library that may fail a read after the first).     *)
(*                                                                         *)
(* WebSocket (the client's control calls and its task): SpecWS, and        *)
(* SpecWSFair with fair scheduling of the task and of a call in progress.  *)
(* SimpleDNSResponder (one datagram at a time through processMessage):     *)
(* SpecDNS.                                                                *)
(***************************************************************************)
EXTENDS Integers, Sequences, FiniteSets, TLC

\* ------------------------------------------------------------------ bounds
\* connections the listener accepts over the life of the model
MaxConns == 2
\* TLS records a peer sends on one connection
MaxRecords == 1
\* clients that connect while the application thread also works on the
\* connections (specification Spec)
MaxAppConns == 1

\* ------------------------------------------------------- program constants
INITIAL_BUFFER_SIZE == 256
WEBSOCKET_BUFFER_SIZE == 1024
DNS_MAX_MESSAGE_SIZE == 512
\* sizeof(DNSMessageHeader), sizeof(DNSResourceRecordTypeA)
HeaderSize == 12
AnswerSize == 16
\* the longest label of a domain name
MaxLabelLength == 63
DNS_TYPE_A == 1
DNS_TYPE_ALL == 255
DNS_CLASS_IN == 1
DNS_CLASS_ANY == 255
DNS_RESPONSE_FORMAT_ERROR == 1
DNS_RESPONSE_NAME_ERROR == 3

\* --------------------------------------------------------------- universes
ConnIds == 1 .. MaxConns
NoConn == 0
\* descriptors: the lowest free one is handed out by socket() and accept()
Fds == 0 .. MaxConns
InvalidFd == 0 - 1
Threads == {"loop", "user"}
NoThread == "none"

\* payloads a peer may send: the 3 bytes "abc" and one record that is 3
\* bytes longer than the initial receive buffer
Abc == <<97, 98, 99>>
LongRecord == [i \in 1 .. (INITIAL_BUFFER_SIZE + 3) |-> i % 256]
Payloads == {Abc, LongRecord}

\* results SSL_accept can report: success, controlled failure, fatal error
HandshakeResults == {1, 0, 0 - 1}

VARIABLES
    serverSocket,       \* TLSServer::_serverSocket
    serverIsRunning,    \* TLSServer::_serverIsRunning
    serverIsShutdown,   \* TLSServer::_serverIsShutdown
    activeDescriptors,  \* TLSServer::_activeDescriptors (fd_set)
    socketMap,          \* TLSServer::_socketMap: descriptor -> connection
    srvMutex,           \* TLSServer::_mutex (recursive): holder and depth
    sock,               \* the TLSSocket objects, by connection id
    osOpen,             \* descriptors open at the operating system
    backlog,            \* connections waiting in the listen queue
    peer,               \* what each connection's peer has sent
    stack,              \* per thread: the frames of the calls in progress
    lp,                 \* locals of run() and stopTask() on the loop thread
    up,                 \* the user thread: position, held pointer, results
    events,             \* per connection: the event-sink calls made for it
    gh,                 \* history: what happened, for stating properties
    ws,                 \* the WebSocket object: state, queue, resources
    wt,                 \* the WebSocket task: position in run()
    wu,                 \* the thread calling the WebSocket: call in progress
    wh,                 \* history of the WebSocket: notifications, faults
    dns                 \* the DNS responder's loop: buffer, sizes, response

\* the TLS server and its connections
tlsVars == << serverSocket, serverIsRunning, serverIsShutdown,
              activeDescriptors, socketMap, srvMutex, sock, osOpen, backlog,
              peer, stack, lp, up, events, gh >>

\* the WebSocket client
wsVars == << ws, wt, wu, wh >>

\* what the TLS server's operations leave alone
otherVars == << ws, wt, wu, wh, dns >>

vars == << serverSocket, serverIsRunning, serverIsShutdown, activeDescriptors,
           socketMap, srvMutex, sock, osOpen, backlog, peer, stack, lp, up,
           events, gh, ws, wt, wu, wh, dns >>

srvVars == << serverSocket, serverIsRunning, serverIsShutdown,
              activeDescriptors, socketMap >>

\* ----------------------------------------------------------------- helpers
Min(a, b) == IF a < b THEN a ELSE b

Registered == {socketMap[fd] : fd \in Fds} \ {NoConn}

Created == {c \in ConnIds : sock[c].exists}

LowestFree == CHOOSE fd \in Fds \ osOpen : \A g \in Fds \ osOpen : fd <= g

\* the events of one kind delivered for a connection
NewEvent == [kind |-> "tlsNewConnection", data |-> << >>]
DiscEvent == [kind |-> "socketDisconnected", data |-> << >>]
BytesEvent(d) == [kind |-> "socketBytesReceived", data |-> d]

CountIn(ev, c, k) == Cardinality({i \in 1 .. Len(ev[c]) : ev[c][i].kind = k})
Count(c, k) == CountIn(events, c, k)

\* variant: an FD_CLR that clears nothing
FdClrNothing(set, fd) == {set}

\* FD_CLR(fd, set). With fd = -1 the macro indexes outside the set, which is
\* undefined: the set stays as it is or loses some bit.
FdClrOutcomes(set, fd) ==
    IF fd \in Fds
    THEN {set \ {fd}}
    ELSE {set \ {x} : x \in Fds \cup {fd}}

\* recursive mutex
FreeMutex == [holder |-> NoThread, depth |-> 0]
CanLock(m, t) == m.holder \in {NoThread, t}
Locked(m, t) == [holder |-> t, depth |-> m.depth + 1]
Unlocked(m) ==
    IF m.depth <= 1 THEN FreeMutex ELSE [m EXCEPT !.depth = m.depth - 1]

SockMutex(c) == [holder |-> sock[c].mHolder, depth |-> sock[c].mDepth]
WithSockMutex(s, m) == [s EXCEPT !.mHolder = m.holder, !.mDepth = m.depth]

\* call frames
Frame(op, pc, c) ==
    [op |-> op, pc |-> pc, c |-> c, dn |-> FALSE, dtor |-> FALSE,
     res |-> 0, n1 |-> 0, k1 |-> 0, nb0 |-> 0, buf |-> << >>, drain |-> FALSE,
     tested |-> FALSE]

Top(t) == Head(stack[t])
InFrame(t, op, pc) ==
    /\ stack[t] # << >>
    /\ Top(t).op = op
    /\ Top(t).pc = pc
Push(t, f) == [stack EXCEPT ![t] = << f >> \o @]
Pop(t) == [stack EXCEPT ![t] = Tail(@)]
SetTop(t, f) == [stack EXCEPT ![t] = << f >> \o Tail(@)]
Idle(t) == stack[t] = << >>

\* shared_ptr reference count of a TLSSocket: the registry, the loop's
\* currentSocket, the drain's tlsSocket, the user's locked pointer
RefCountIn(map, cur, drn, usr, c) ==
    (IF \E fd \in Fds : map[fd] = c THEN 1 ELSE 0)
    + (IF cur = c THEN 1 ELSE 0)
    + (IF drn = c THEN 1 ELSE 0)
    + (IF usr = c THEN 1 ELSE 0)

RefCount(c) == RefCountIn(socketMap, lp.currentSocket, lp.tlsSocket, up.ref, c)

\* -------------------------------------------------------------------- Init
\* The state after TLSServer's construction (with an event handler) and
\* init(): not running, "shut down", no descriptor, empty registry.
NoSock ==
    [exists |-> FALSE, destroyed |-> FALSE, fd |-> InvalidFd, owner |-> FALSE,
     sslAccepted |-> FALSE, eventHandler |-> FALSE, tlsFreed |-> FALSE,
     announced |-> FALSE, hs |-> "none", erasures |-> 0, mHolder |-> NoThread,
     mDepth |-> 0]

\* what is left of a TLSSocket after its destructor
GoneSock == [NoSock EXCEPT !.exists = TRUE, !.destroyed = TRUE]

\* the user thread between calls, holding a pointer to connection ref
NoCall(ref) ==
    [pc |-> "idle", ref |-> ref, ret |-> 0, closed |-> FALSE, freed |-> FALSE]

\* the locals of run() and stopTask() outside their scope
NoLocals(pc) ==
    [pc |-> pc, maxDescriptor |-> 0, newMaxDescriptor |-> 0,
     currentDescriptor |-> 0, readReady |-> {}, currentSocket |-> NoConn,
     tlsSocket |-> NoConn, continueRunning |-> FALSE, result |-> 0,
     todo |-> {}]

NoPeer == [inbox |-> << >>, closed |-> FALSE, sent |-> 0]

\* no datagram has been received yet
NoQuery ==
    [flags |-> 0, counts |-> << 0, 0, 0, 0 >>, name |-> << >>,
     tail |-> << >>, trailer |-> << >>, cut |-> HeaderSize]

Init ==
    /\ serverSocket = InvalidFd
    /\ serverIsRunning = FALSE
    /\ serverIsShutdown = TRUE
    /\ activeDescriptors = {}
    /\ socketMap = [fd \in Fds |-> NoConn]
    /\ srvMutex = FreeMutex
    /\ sock = [c \in ConnIds |-> NoSock]
    /\ osOpen = {}
    /\ backlog = 0
    /\ peer = [c \in ConnIds |-> NoPeer]
    /\ stack = [t \in Threads |-> << >>]
    /\ lp = NoLocals("idle")
    /\ up = NoCall(NoConn)
    /\ events = [c \in ConnIds |-> << >>]
    /\ gh = [shutdownCalled |-> FALSE, openAtShutdown |-> {},
             openAtDrain |-> {}, drainDisc |-> {}, crashed |-> FALSE,
             abandoned |-> {}]
    /\ ws = [state |-> "Stopped", queue |-> "null", transportList |-> FALSE,
             rx |-> "null", tx |-> "null", transport |-> "null",
             bufferSize |-> WEBSOCKET_BUFFER_SIZE, schema |-> "Invalid",
             cert |-> FALSE, destroyed |-> FALSE]
    /\ wt = [pc |-> "none", after |-> "check"]
    /\ wu = [op |-> "none", pc |-> "idle", seen |-> "none", ret |-> "none"]
    /\ wh = [disc |-> 0, stopAccepted |-> FALSE, doubleFree |-> FALSE,
             crashed |-> FALSE]
    /\ dns = [pc |-> "recv", query |-> NoQuery, buffer |-> << >>,
              messageSize |-> 0, responseSize |-> 0]

\* -------------------------------------------------- TLSServer::listen
\* an uncaught std::out_of_range ends the process: nothing runs afterwards
Alive == ~gh.crashed

\* variant: listen() without its guard
ListenAlways == TRUE

\* variant: a guard that looks at the running flag
ListenWhenNotRunning == ~serverIsRunning

\* the guard of listen(): admitted only while _serverIsShutdown
ListenAdmitted == serverIsShutdown

\* variant: a failed listen() that leaves the number of the descriptor it
\* closed in _serverSocket
KeptListenSocket == LowestFree

\* what a failed listen() leaves in _serverSocket: the -1 socket() returned,
\* or the -1 stored after a failed bind() or ::listen()
FailedListenSocket == InvalidFd

\* The whole of listen() runs under the server lock. outcome: "ok", or
\* "fail" when socket(), bind() or ::listen() fails. The call has returned
\* up.ret (1: true, 0: false) when the user thread is at "listen_ret".
Listen(outcome) ==
    /\ Alive
    /\ UNCHANGED otherVars
    /\ up.pc = "idle"
    /\ Idle("user")
    /\ CanLock(srvMutex, "user")
    /\ IF ~ListenAdmitted
       THEN /\ outcome = "fail"
            /\ up' = [up EXCEPT !.pc = "listen_ret", !.ret = 0]
            /\ UNCHANGED << srvVars, osOpen, lp >>
       ELSE IF outcome = "ok" /\ Fds \ osOpen # {}
       THEN /\ serverSocket' = LowestFree
            /\ osOpen' = osOpen \cup {LowestFree}
            /\ serverIsRunning' = TRUE
            /\ serverIsShutdown' = FALSE
            /\ lp' = [lp EXCEPT !.pc = "init"]
            /\ up' = [up EXCEPT !.pc = "listen_ret", !.ret = 1]
            /\ UNCHANGED << activeDescriptors, socketMap >>
       ELSE \* socket() < 0 is stored as is; after a failed bind() or
            \* ::listen() the descriptor is closed and set to -1
            /\ serverSocket' = FailedListenSocket
            /\ up' = [up EXCEPT !.pc = "listen_ret", !.ret = 0]
            /\ UNCHANGED << serverIsRunning, serverIsShutdown,
                            activeDescriptors, socketMap, osOpen, lp >>
    /\ UNCHANGED << srvMutex, sock, backlog, peer, stack, events, gh >>

\* the caller goes on after listen() or write() returned
UserReturn ==
    /\ Alive
    /\ UNCHANGED otherVars
    /\ up.pc \in {"listen_ret", "write_ret"}
    /\ up' = NoCall(up.ref)
    /\ UNCHANGED << srvVars, srvMutex, sock, osOpen, backlog, peer, stack, lp,
                    events, gh >>

\* -------------------------------------------------- TLSServer::shutdown
\* connections that are open, established and have an event sink
OpenWithSink ==
    {c \in ConnIds : /\ sock[c].exists
                     /\ sock[c].fd # InvalidFd
                     /\ sock[c].sslAccepted
                     /\ sock[c].eventHandler}

\* variant: shutdown() that also closes the descriptors of the connections
ShutdownClosesAll == osOpen

\* close(_serverSocket) is the only descriptor shutdown() closes
ShutdownCloses == {serverSocket}

\* under the server lock: if running and not shut down, clear the running
\* flag and close the listening descriptor
Shutdown ==
    /\ Alive
    /\ UNCHANGED otherVars
    /\ up.pc = "idle"
    /\ Idle("user")
    /\ CanLock(srvMutex, "user")
    /\ serverIsRunning /\ ~serverIsShutdown
    /\ serverIsRunning' = FALSE
    /\ osOpen' = osOpen \ ShutdownCloses
    /\ gh' = [gh EXCEPT !.shutdownCalled = TRUE, !.openAtShutdown = OpenWithSink]
    /\ UNCHANGED << serverSocket, serverIsShutdown, activeDescriptors, socketMap,
                    srvMutex, sock, backlog, peer, stack, lp, up, events >>

\* -------------------------------------- the user's pointer to a connection
\* weak_ptr::lock() on the pointer received in tlsNewConnection
UserLockPtr(c) ==
    /\ Alive
    /\ UNCHANGED otherVars
    /\ up.pc = "idle"
    /\ Idle("user")
    /\ up.ref = NoConn
    /\ sock[c].announced
    /\ ~sock[c].destroyed
    /\ RefCount(c) > 0
    /\ up' = [up EXCEPT !.ref = c]
    /\ UNCHANGED << srvVars, srvMutex, sock, osOpen, backlog, peer, stack, lp,
                    events, gh >>

\* the frame of ~TLSSocket(): close(), then the object is gone
DtorFrame(c) == [Frame("close", "cl_enter", c) EXCEPT !.dtor = TRUE]

\* the user's shared pointer goes out of scope
UserDropPtr ==
    /\ Alive
    /\ UNCHANGED otherVars
    /\ up.pc = "idle"
    /\ Idle("user")
    /\ up.ref # NoConn
    /\ up' = [up EXCEPT !.ref = NoConn]
    /\ stack' = IF RefCount(up.ref) = 1
                THEN Push("user", DtorFrame(up.ref))
                ELSE stack
    /\ UNCHANGED << srvVars, srvMutex, sock, osOpen, backlog, peer, lp,
                    events, gh >>

UserClose ==
    /\ Alive
    /\ UNCHANGED otherVars
    /\ up.pc = "idle"
    /\ Idle("user")
    /\ up.ref # NoConn
    /\ stack' = Push("user", Frame("close", "cl_enter", up.ref))
    /\ UNCHANGED << srvVars, srvMutex, sock, osOpen, backlog, peer, lp, up,
                    events, gh >>

\* -------------------------------------------------- TLSSocket::write
\* SSL_write(_tlsPeer, ...) under the connection lock, whatever the state of
\* the connection. On a live session it reports bytes written (1) or a
\* failure (0, -1); on a session close() has freed the call is undefined
\* and any of the three may come back. At "write_ret" the call has returned
\* up.ret; closed and freed tell how it found the connection and whether
\* the freed session went to the library.
WriteUsesPeer(c) == TRUE

Write(res) ==
    /\ Alive
    /\ UNCHANGED otherVars
    /\ up.pc = "idle"
    /\ Idle("user")
    /\ up.ref # NoConn
    /\ CanLock(SockMutex(up.ref), "user")
    /\ IF WriteUsesPeer(up.ref)
       THEN up' = [up EXCEPT !.pc = "write_ret", !.ret = res,
                             !.closed = sock[up.ref].fd = InvalidFd,
                             !.freed = sock[up.ref].tlsFreed]
       ELSE /\ res = 0 - 1
            /\ up' = [up EXCEPT !.pc = "write_ret", !.ret = res,
                                !.closed = sock[up.ref].fd = InvalidFd]
    /\ UNCHANGED << srvVars, srvMutex, sock, osOpen, backlog, peer, stack, lp,
                    events, gh >>

\* -------------------------------------------------- TLSSocket::setEventHandler
SetEventHandler(s, attach) == [s EXCEPT !.eventHandler = @ \/ attach]

\* ------------------------------------------------------------------- peers
PeerConnect(limit) ==
    /\ Alive
    /\ UNCHANGED otherVars
    /\ serverSocket \in osOpen
    /\ Cardinality(Created) + backlog < limit
    /\ backlog' = backlog + 1
    /\ UNCHANGED << srvVars, srvMutex, sock, osOpen, peer, stack, lp, up,
                    events, gh >>

PeerOpen(c) == sock[c].exists /\ sock[c].fd # InvalidFd /\ ~peer[c].closed

PeerData(c, p) ==
    /\ Alive
    /\ UNCHANGED otherVars
    /\ PeerOpen(c)
    /\ peer[c].sent < MaxRecords
    /\ peer' = [peer EXCEPT ![c].inbox = Append(@, p), ![c].sent = @ + 1]
    /\ UNCHANGED << srvVars, srvMutex, sock, osOpen, backlog, stack, lp, up,
                    events, gh >>

PeerClose(c) ==
    /\ Alive
    /\ UNCHANGED otherVars
    /\ PeerOpen(c)
    /\ peer' = [peer EXCEPT ![c].closed = TRUE]
    /\ UNCHANGED << srvVars, srvMutex, sock, osOpen, backlog, stack, lp, up,
                    events, gh >>

\* what select() reports for a connection's descriptor: the client sends
\* its first handshake bytes as soon as it is connected
PeerReadable(c) ==
    \/ peer[c].inbox # << >>
    \/ peer[c].closed
    \/ ~sock[c].sslAccepted

\* -------------------------------------------------- TLSSocket::close
\* Lock the connection; a valid descriptor means there is work to do, and a
\* connection that still has an owner first asks it to deregister.
\* variant: close() without the descriptor test
CloseAlwaysWorks(c) == TRUE

CloseDoesWork(c) == sock[c].fd # InvalidFd

CloseEnter(t) ==
    /\ Alive
    /\ UNCHANGED otherVars
    /\ InFrame(t, "close", "cl_enter")
    /\ LET f == Top(t)
           c == f.c
       IN /\ CanLock(SockMutex(c), t)
          /\ sock' = [sock EXCEPT ![c] = WithSockMutex(@, Locked(SockMutex(c), t))]
          /\ stack' =
                IF ~CloseDoesWork(c)
                THEN SetTop(t, [f EXCEPT !.pc = "cl_notify"])
                ELSE IF sock[c].owner
                THEN [stack EXCEPT ![t] =
                        << Frame("removeSocket", "rs_enter", c),
                           [f EXCEPT !.pc = "cl_teardown"] >> \o Tail(@)]
                ELSE SetTop(t, [f EXCEPT !.pc = "cl_teardown"])
    /\ UNCHANGED << srvVars, srvMutex, osOpen, backlog, peer, lp, up, events, gh >>

\* variant: a teardown that leaves the descriptor's number in place
TornDownKeepsFd(s) == [s EXCEPT !.tlsFreed = TRUE]

\* _socketDescriptor = -1 and SSL_free(_tlsPeer); _sslAccepted stays
TornDown(s) == [s EXCEPT !.fd = InvalidFd, !.tlsFreed = TRUE]

\* SSL_shutdown if accepted, shutdown(), ::close(), _socketDescriptor = -1,
\* SSL_free, disconnectedNow = true
CloseTeardown(t) ==
    /\ Alive
    /\ UNCHANGED otherVars
    /\ InFrame(t, "close", "cl_teardown")
    /\ LET f == Top(t)
           c == f.c
       IN /\ osOpen' = osOpen \ {sock[c].fd}
          /\ sock' = [sock EXCEPT ![c] = TornDown(@)]
          /\ peer' = [peer EXCEPT ![c] = NoPeer]
          /\ stack' = SetTop(t, [f EXCEPT !.pc = "cl_notify", !.dn = TRUE])
    /\ UNCHANGED << srvVars, srvMutex, backlog, lp, up, events, gh >>

\* variant: close() that never notifies
NotifiesNever(s, dn) == FALSE

\* if ( _eventHandler && disconnectedNow )
Notifies(s, dn) == s.eventHandler /\ dn

\* _mutex.unlock(); then, outside the lock, socketDisconnected if the test
\* above says so; return. When the call was the destructor's, the object is
\* gone afterwards. The history notes who was notified by the drain.
CloseNotify(t) ==
    /\ Alive
    /\ UNCHANGED otherVars
    /\ InFrame(t, "close", "cl_notify")
    /\ LET f == Top(t)
           c == f.c
           fire == Notifies(sock[c], f.dn)
       IN /\ events' = IF fire
                       THEN [events EXCEPT ![c] = Append(@, DiscEvent)]
                       ELSE events
          /\ gh' = IF fire /\ f.drain
                   THEN [gh EXCEPT !.drainDisc = @ \cup {c}]
                   ELSE gh
          /\ sock' = [sock EXCEPT ![c] =
                        IF f.dtor
                        THEN GoneSock
                        ELSE WithSockMutex(@, Unlocked(SockMutex(c)))]
          /\ stack' = Pop(t)
    /\ UNCHANGED << srvVars, srvMutex, osOpen, backlog, peer, lp, up >>

\* variant: removeSocket without the test of the running flag
RemoveSocketNeverSkips == FALSE

\* if ( ! _serverIsRunning ): unlock and return
RemoveSocketSkips == ~serverIsRunning

\* -------------------------------------------------- TLSServer::removeSocket
\* lock; if not running: unlock and return; otherwise
\* FD_CLR(tlsSocket->_socketDescriptor, &_activeDescriptors)
RemoveSocketEnter(t) ==
    /\ Alive
    /\ UNCHANGED otherVars
    /\ InFrame(t, "removeSocket", "rs_enter")
    /\ CanLock(srvMutex, t)
    /\ IF RemoveSocketSkips
       THEN /\ stack' = Pop(t)
            /\ UNCHANGED << srvMutex, activeDescriptors >>
       ELSE /\ srvMutex' = Locked(srvMutex, t)
            /\ activeDescriptors' \in FdClrOutcomes(activeDescriptors, sock[Top(t).c].fd)
            /\ stack' = SetTop(t, [Top(t) EXCEPT !.pc = "rs_erase"])
    /\ UNCHANGED << serverSocket, serverIsRunning, serverIsShutdown, socketMap,
                    sock, osOpen, backlog, peer, lp, up, events, gh >>

\* variant: removeSocket without the erase
NotErased(map, fd) == map

InRegistry(map, c) == \E fd \in Fds : map[fd] = c

Erased(map, fd) == [g \in Fds |-> IF g = fd THEN NoConn ELSE map[g]]

\* the erase removes the entry of c and the registry held the only
\* shared pointer to c: the erase destroys the object
ErasesLastReference(c) ==
    /\ InRegistry(socketMap, c)
    /\ socketMap[sock[c].fd] = c
    /\ RefCount(c) = 1

\* _socketMap.erase(tlsSocket->_socketDescriptor); _mutex.unlock(). When
\* the erase drops the last reference, ~TLSSocket() runs inside it, before
\* the unlock.
RemoveSocketErase(t) ==
    /\ Alive
    /\ UNCHANGED otherVars
    /\ InFrame(t, "removeSocket", "rs_erase")
    /\ socketMap' = Erased(socketMap, sock[Top(t).c].fd)
    /\ sock' = [sock EXCEPT ![Top(t).c].erasures = @ + 1]
    /\ IF ErasesLastReference(Top(t).c)
       THEN /\ srvMutex' = srvMutex
            /\ stack' = [stack EXCEPT ![t] =
                            << DtorFrame(Top(t).c),
                               [Top(t) EXCEPT !.pc = "rs_unlock"] >> \o Tail(@)]
       ELSE /\ srvMutex' = Unlocked(srvMutex)
            /\ stack' = SetTop(t, [Top(t) EXCEPT !.pc = "rs_release"])
    /\ UNCHANGED << serverSocket, serverIsRunning, serverIsShutdown,
                    activeDescriptors, osOpen, backlog, peer, lp, up,
                    events, gh >>

\* _mutex.unlock() after an erase that ran the destructor
RemoveSocketUnlock(t) ==
    /\ Alive
    /\ UNCHANGED otherVars
    /\ InFrame(t, "removeSocket", "rs_unlock")
    /\ srvMutex' = Unlocked(srvMutex)
    /\ stack' = SetTop(t, [Top(t) EXCEPT !.pc = "rs_release"])
    /\ UNCHANGED << srvVars, sock, osOpen, backlog, peer, lp, up, events, gh >>

\* -------------------------------------------------- TLSSocket::releaseOwner
\* variant: releaseOwner() that leaves the owner in place
KeepOwner(s) == s

ReleaseOwner(s) == [s EXCEPT !.owner = FALSE]

\* tlsSocket->releaseOwner() at the end of removeSocket
RemoveSocketRelease(t) ==
    /\ Alive
    /\ UNCHANGED otherVars
    /\ InFrame(t, "removeSocket", "rs_release")
    /\ CanLock(SockMutex(Top(t).c), t)
    /\ sock' = [sock EXCEPT ![Top(t).c] = ReleaseOwner(@)]
    /\ stack' = Pop(t)
    /\ UNCHANGED << srvVars, srvMutex, osOpen, backlog, peer, lp, up, events, gh >>

\* ------------------------------------------- TLSServer::sendNewConnectionEvent
\* the server was constructed with an event handler
ServerEventHandler == TRUE

\* variant: sendNewConnectionEvent without the running test
AnnounceAlways == ServerEventHandler

\* don't emit new connections when we're about to shut down
MayAnnounce == ServerEventHandler /\ serverIsRunning

\* lock; if allowed, look the shared pointer up (at() throws on a missing
\* key) and call tlsNewConnection, which hands the sink its pointer; the sink
\* may attach its per-connection handler right there. The callback runs
\* with the server lock held.
SendNewConnectionEvent(t, attach) ==
    /\ Alive
    /\ UNCHANGED otherVars
    /\ InFrame(t, "sendNewConnectionEvent", "sn_fire")
    /\ CanLock(srvMutex, t)
    /\ LET f == Top(t)
           fd == sock[f.c].fd
           found == fd \in Fds /\ socketMap[fd] # NoConn
       IN /\ srvMutex' = Locked(srvMutex, t)
          /\ stack' = SetTop(t, [f EXCEPT !.pc = "sn_unlock"])
          /\ IF MayAnnounce /\ found
             THEN /\ events' = [events EXCEPT ![socketMap[fd]] = Append(@, NewEvent)]
                  /\ sock' = [sock EXCEPT ![socketMap[fd]] =
                                SetEventHandler([@ EXCEPT !.announced = TRUE], attach)]
                  /\ gh' = gh
             ELSE /\ attach = FALSE
                  /\ gh' = [gh EXCEPT !.crashed = MayAnnounce]
                  /\ UNCHANGED << events, sock >>
    /\ UNCHANGED << srvVars, osOpen, backlog, peer, lp, up >>

SendNewConnectionUnlock(t) ==
    /\ Alive
    /\ UNCHANGED otherVars
    /\ InFrame(t, "sendNewConnectionEvent", "sn_unlock")
    /\ srvMutex' = Unlocked(srvMutex)
    /\ stack' = Pop(t)
    /\ UNCHANGED << srvVars, sock, osOpen, backlog, peer, lp, up, events, gh >>

\* -------------------------------------------------- the TLS library's reads
\* SSL_read(len): the bytes of the current record, at most len of them, and
\* SSL_pending: what is left of that record. With nothing to read the call
\* fails with failCode (0: the peer closed, -1: error).
SslRead(inbox, len, failCode) ==
    IF inbox = << >>
    THEN [res |-> failCode, data |-> << >>, inbox |-> inbox, pending |-> 0]
    ELSE LET rec == Head(inbox)
             n == Min(len, Len(rec))
             rest == SubSeq(rec, n + 1, Len(rec))
         IN [res |-> n,
             data |-> SubSeq(rec, 1, n),
             inbox |-> IF rest = << >> THEN Tail(inbox) ELSE << rest >> \o Tail(inbox),
             pending |-> Len(rest)]

\* SSL_read that the library fails although bytes were reported pending (an
\* internal error of the library): the result is failCode and nothing is read
SslReadFaulty(inbox, len, failCode, fault) ==
    IF fault
    THEN [res |-> failCode, data |-> << >>, inbox |-> inbox, pending |-> 0]
    ELSE SslRead(inbox, len, failCode)

\* -------------------------------------------------- TLSSocket::socketReadyRead
\* The do-while of socketReadyRead: read into the buffer behind the bytes
\* already read, grow the buffer to fit what the library still has pending,
\* stop when nothing is pending or a read fails. res is the last SSL_read
\* result; n1 and k1 remember the first read and what was pending after it.
\* a single SSL_read without the loop around it
ReadOnce(inbox, bytes, size, failCode, first) ==
    LET r == SslRead(inbox, size - Len(bytes), failCode)
    IN IF r.res <= 0
       THEN [res |-> r.res, bytes |-> bytes, inbox |-> r.inbox, failed |-> TRUE,
             n1 |-> 0, k1 |-> 0]
       ELSE [res |-> r.res, bytes |-> bytes \o r.data, inbox |-> r.inbox,
             failed |-> FALSE, n1 |-> r.res, k1 |-> r.pending]

RECURSIVE ReadLoop(_, _, _, _, _)
ReadLoop(inbox, bytes, size, failCode, first) ==
    LET r == SslReadFaulty(inbox, size - Len(bytes), failCode,
                           first.set /\ first.fault)
    IN IF r.res <= 0
       THEN [res |-> r.res, bytes |-> bytes, inbox |-> r.inbox, failed |-> TRUE,
             n1 |-> first.n1, k1 |-> first.k1]
       ELSE LET nb == bytes \o r.data
                f == IF first.set
                     THEN first
                     ELSE [set |-> TRUE, n1 |-> r.res, k1 |-> r.pending,
                           fault |-> first.fault]
            IN IF r.pending > 0
               THEN ReadLoop(r.inbox, nb, Len(nb) + r.pending, failCode, f)
               ELSE [res |-> r.res, bytes |-> nb, inbox |-> r.inbox,
                     failed |-> FALSE, n1 |-> f.n1, k1 |-> f.k1]

SocketRead(inbox, failCode) ==
    ReadLoop(inbox, << >>, INITIAL_BUFFER_SIZE, failCode,
             [set |-> FALSE, n1 |-> 0, k1 |-> 0, fault |-> FALSE])

\* the same call when the library fails the read that follows the first
SocketReadFault(inbox, failCode) ==
    ReadLoop(inbox, << >>, INITIAL_BUFFER_SIZE, failCode,
             [set |-> FALSE, n1 |-> 0, k1 |-> 0, fault |-> TRUE])

\* variant: a failed read that returns without looking at the bytes read
ReturnsSilentlyOnFailure(failed, deliver) == failed

\* after a failed read: return at once unless bytes were read and a handler
\* is set ( bytesRead != 0 && _eventHandler != nullptr )
ReturnsSilently(failed, deliver) == failed /\ ~deliver

\* -------------------------------------------------- TLSSocket::acceptSSL
\* if ( ! SSL_accept(_tlsPeer) ) is the failure test
HandshakeFailed(hs) == hs = 0

HandshakeName(hs) == IF hs = 1 THEN "ok" ELSE IF hs = 0 THEN "fail" ELSE "error"

\* variant: a readReady that runs the handshake on every call
NeedsHandshakeAlways(s) == TRUE

\* if ( ! _sslAccepted ) return acceptSSL();
NeedsHandshake(s) == ~s.sslAccepted

\* socketReadyRead up to its first unlock: under the connection lock either
\* the handshake (acceptSSL, with SSL_accept reporting hs) or the read loop
\* (fault: the library fails the read after the first)
ReadyReadEnter(t, hs, failCode, fault) ==
    /\ Alive
    /\ UNCHANGED otherVars
    /\ InFrame(t, "socketReadyRead", "rr_enter")
    /\ LET f == Top(t)
           c == f.c
           m == Locked(SockMutex(c), t)
       IN /\ CanLock(SockMutex(c), t)
          /\ IF NeedsHandshake(sock[c])
             THEN /\ failCode = 0
                  /\ peer' = peer
                  /\ IF HandshakeFailed(hs)
                     THEN /\ sock' = [sock EXCEPT ![c] =
                                 WithSockMutex([@ EXCEPT !.eventHandler = FALSE,
                                                         !.hs = HandshakeName(hs)], m)]
                          /\ stack' = SetTop(t, [f EXCEPT !.pc = "rr_ret",
                                                          !.res = 0 - 2])
                     ELSE /\ sock' = [sock EXCEPT ![c] =
                                 WithSockMutex([@ EXCEPT !.sslAccepted = TRUE,
                                                         !.hs = HandshakeName(hs)], m)]
                          /\ stack' =
                               IF sock[c].owner
                               THEN [stack EXCEPT ![t] =
                                       << Frame("sendNewConnectionEvent", "sn_fire", c),
                                          [f EXCEPT !.pc = "rr_ret", !.res = 1] >>
                                       \o Tail(@)]
                               ELSE SetTop(t, [f EXCEPT !.pc = "rr_ret", !.res = 1])
             ELSE LET unread == IF sock[c].tlsFreed THEN << >> ELSE peer[c].inbox
                      r == IF fault
                           THEN SocketReadFault(unread, failCode)
                           ELSE SocketRead(unread, failCode)
                      deliver == r.bytes # << >> /\ sock[c].eventHandler
                  IN /\ hs = 1
                     /\ peer' = IF sock[c].tlsFreed
                                THEN peer
                                ELSE [peer EXCEPT ![c].inbox = r.inbox]
                     /\ sock' = [sock EXCEPT ![c] = WithSockMutex(@, m)]
                     /\ stack' = SetTop(t,
                           [f EXCEPT !.pc = IF ReturnsSilently(r.failed, deliver)
                                            THEN "rr_ret" ELSE "rr_unlock",
                                     !.res = r.res, !.buf = r.bytes,
                                     !.n1 = r.n1, !.k1 = r.k1,
                                     !.nb0 = Count(c, "socketBytesReceived"),
                                     !.tested = r.failed])
    /\ UNCHANGED << srvVars, srvMutex, osOpen, backlog, lp, up, events, gh >>

\* locker.unlock() before the sink is called
ReadyReadUnlock(t) ==
    /\ Alive
    /\ UNCHANGED otherVars
    /\ InFrame(t, "socketReadyRead", "rr_unlock")
    /\ LET c == Top(t).c
       IN sock' = [sock EXCEPT ![c] = WithSockMutex(@, Unlocked(SockMutex(c)))]
    /\ stack' = SetTop(t, [Top(t) EXCEPT !.pc = "rr_notify"])
    /\ UNCHANGED << srvVars, srvMutex, osOpen, backlog, peer, lp, up, events, gh >>

\* socketBytesReceived outside the lock (after a failed read the handler was
\* tested under the lock, otherwise it is tested here), then return result
ReadyReadNotify(t) ==
    /\ Alive
    /\ UNCHANGED otherVars
    /\ t = "loop"
    /\ InFrame(t, "socketReadyRead", "rr_notify")
    /\ LET f == Top(t)
           c == f.c
       IN /\ events' = IF f.tested \/ sock[c].eventHandler
                       THEN [events EXCEPT ![c] = Append(@, BytesEvent(f.buf))]
                       ELSE events
          /\ lp' = [lp EXCEPT !.result = f.res, !.pc = "after_rr"]
    /\ stack' = Pop(t)
    /\ UNCHANGED << srvVars, srvMutex, sock, osOpen, backlog, peer, up, gh >>

\* return with the lock still held: the MutexLocker releases it
ReadyReadReturn(t) ==
    /\ Alive
    /\ UNCHANGED otherVars
    /\ t = "loop"
    /\ InFrame(t, "socketReadyRead", "rr_ret")
    /\ LET f == Top(t)
           c == f.c
       IN /\ sock' = [sock EXCEPT ![c] = WithSockMutex(@, Unlocked(SockMutex(c)))]
          /\ lp' = [lp EXCEPT !.result = f.res, !.pc = "after_rr"]
    /\ stack' = Pop(t)
    /\ UNCHANGED << srvVars, srvMutex, osOpen, backlog, peer, up, events, gh >>

\* -------------------------------------------------- TLSServer::run
\* FD_ZERO, FD_SET(_serverSocket), continueRunning = _serverIsRunning,
\* maxDescriptor = _serverSocket; a false flag skips the loop: run() returns
\* and the task goes on to stopTask()
LoopInit ==
    /\ Alive
    /\ UNCHANGED otherVars
    /\ lp.pc = "init"
    /\ CanLock(srvMutex, "loop")
    /\ activeDescriptors' = {serverSocket}
    /\ lp' = IF serverIsRunning
             THEN [lp EXCEPT !.maxDescriptor = serverSocket, !.pc = "snap"]
             ELSE NoLocals("st_lock")
    /\ UNCHANGED << serverSocket, serverIsRunning, serverIsShutdown, socketMap,
                    srvMutex, sock, osOpen, backlog, peer, stack, up, events, gh >>

\* readReadyDescriptors = _activeDescriptors, under the lock
LoopSnapshot ==
    /\ Alive
    /\ UNCHANGED otherVars
    /\ lp.pc = "snap"
    /\ CanLock(srvMutex, "loop")
    /\ lp' = [lp EXCEPT !.readReady = activeDescriptors, !.pc = "select"]
    /\ UNCHANGED << srvVars, srvMutex, sock, osOpen, backlog, peer, stack, up,
                    events, gh >>

\* the descriptors select(maxDescriptor + 1, ...) looks at
Watched == {fd \in lp.readReady : fd <= lp.maxDescriptor}

ConnOfFd(fd) == CHOOSE c \in ConnIds : sock[c].exists /\ sock[c].fd = fd

Readable(fd) ==
    IF fd = serverSocket
    THEN backlog > 0
    ELSE (\E c \in ConnIds : sock[c].exists /\ sock[c].fd = fd)
         /\ PeerReadable(ConnOfFd(fd))

\* select() returns with the descriptors that are readable
LoopSelectReady ==
    /\ Alive
    /\ UNCHANGED otherVars
    /\ lp.pc = "select"
    /\ Watched \subseteq osOpen
    /\ \E fd \in Watched : Readable(fd)
    /\ lp' = [lp EXCEPT !.readReady = {fd \in Watched : Readable(fd)},
                        !.pc = "recheck"]
    /\ UNCHANGED << srvVars, srvMutex, sock, osOpen, backlog, peer, stack, up,
                    events, gh >>

\* select() < 0: a watched descriptor is closed (bad file descriptor)
LoopSelectFail ==
    /\ Alive
    /\ UNCHANGED otherVars
    /\ lp.pc = "select"
    /\ ~(Watched \subseteq osOpen)
    /\ lp' = [lp EXCEPT !.pc = "selfail"]
    /\ UNCHANGED << srvVars, srvMutex, sock, osOpen, backlog, peer, stack, up,
                    events, gh >>

\* variant: a loop that goes back to the wait after a failed select()
RetryAfterSelectFailure == [lp EXCEPT !.pc = "snap"]

\* the return after a failed select(): run() is over, stopTask() is next
ReturnAfterSelectFailure == NoLocals("st_lock")

\* after a failed select(): still running means no shutdown was intended,
\* so stop and close the server socket; return
LoopSelectFailed ==
    /\ Alive
    /\ UNCHANGED otherVars
    /\ lp.pc = "selfail"
    /\ CanLock(srvMutex, "loop")
    /\ serverIsRunning' = FALSE
    /\ osOpen' = IF serverIsRunning THEN osOpen \ {serverSocket} ELSE osOpen
    /\ lp' = ReturnAfterSelectFailure
    /\ UNCHANGED << serverSocket, serverIsShutdown, activeDescriptors, socketMap,
                    srvMutex, sock, backlog, peer, stack, up, events, gh >>

\* variant: a loop that goes on to the events although the flag is false
ContinueAfterRecheck == [lp EXCEPT !.pc = "accept"]

\* if ( ! continueRunning ) return: run() is over, stopTask() is next
ExitAfterRecheck == NoLocals("st_lock")

\* continueRunning = _serverIsRunning; if false, return (gh.abandoned notes
\* the descriptors that select() had reported ready)
LoopRecheck ==
    /\ Alive
    /\ UNCHANGED otherVars
    /\ lp.pc = "recheck"
    /\ CanLock(srvMutex, "loop")
    /\ lp' = IF serverIsRunning
             THEN [lp EXCEPT !.pc = "accept"]
             ELSE ExitAfterRecheck
    /\ gh' = IF serverIsRunning
             THEN gh
             ELSE [gh EXCEPT !.abandoned = lp.readReady]
    /\ UNCHANGED << srvVars, srvMutex, sock, osOpen, backlog, peer, stack, up,
                    events >>

\* the server socket is not readable: straight to the scan
LoopNoAccept ==
    /\ Alive
    /\ UNCHANGED otherVars
    /\ lp.pc = "accept"
    /\ serverSocket \notin lp.readReady
    /\ lp' = [lp EXCEPT !.newMaxDescriptor = serverSocket,
                        !.currentDescriptor = 0, !.pc = "scan"]
    /\ UNCHANGED << srvVars, srvMutex, sock, osOpen, backlog, peer, stack, up,
                    events, gh >>

\* accept() < 0, or SSL_new fails and the new descriptor is closed again
LoopAcceptFail ==
    /\ Alive
    /\ UNCHANGED otherVars
    /\ lp.pc = "accept"
    /\ serverSocket \in lp.readReady
    /\ backlog' = backlog - 1
    /\ lp' = [lp EXCEPT !.readReady = @ \ {serverSocket},
                        !.newMaxDescriptor = serverSocket,
                        !.currentDescriptor = 0, !.pc = "scan"]
    /\ UNCHANGED << srvVars, srvMutex, sock, osOpen, peer, stack, up, events, gh >>

NextConn == CHOOSE c \in ConnIds \ Created : \A d \in ConnIds \ Created : c <= d

\* variant: accept without the registry insert
NotInserted(map, fd, c) == map

\* std::map::insert leaves an existing entry alone
Inserted(map, fd, c) ==
    [g \in Fds |-> IF g = fd /\ map[g] = NoConn THEN c ELSE map[g]]

\* variant: an accept that leaves the descriptor bound as it is
UnraisedBound(max, fd) == max

\* if ( newClientSocket > maxDescriptor ) maxDescriptor = newClientSocket
RaisedBound(max, fd) == IF fd > max THEN fd ELSE max

NewSocket(fd) ==
    [exists |-> TRUE, destroyed |-> FALSE, fd |-> fd, owner |-> TRUE,
     sslAccepted |-> FALSE, eventHandler |-> FALSE, tlsFreed |-> FALSE,
     announced |-> FALSE, hs |-> "none", erasures |-> 0, mHolder |-> NoThread,
     mDepth |-> 0]

\* accept() and SSL_new succeed: a TLSSocket owned by this server is made,
\* registered and added to the interest set; no handshake yet. accept() on
\* a listener that shutdown() has closed in between can only fail.
LoopAcceptOk ==
    /\ Alive
    /\ UNCHANGED otherVars
    /\ lp.pc = "accept"
    /\ serverSocket \in lp.readReady
    /\ serverSocket \in osOpen
    /\ CanLock(srvMutex, "loop")
    /\ Fds \ osOpen # {}
    /\ ConnIds \ Created # {}
    /\ LET fd == LowestFree
           c == NextConn
       IN /\ backlog' = backlog - 1
          /\ osOpen' = osOpen \cup {fd}
          /\ sock' = [sock EXCEPT ![c] = NewSocket(fd)]
          /\ socketMap' = Inserted(socketMap, fd, c)
          /\ activeDescriptors' = activeDescriptors \cup {fd}
          /\ lp' = [lp EXCEPT !.readReady = @ \ {serverSocket},
                              !.maxDescriptor = RaisedBound(@, fd),
                              !.newMaxDescriptor = serverSocket,
                              !.currentDescriptor = 0, !.pc = "scan"]
    /\ UNCHANGED << serverSocket, serverIsRunning, serverIsShutdown, srvMutex,
                    peer, stack, up, events, gh >>

\* for (currentDescriptor = 0; currentDescriptor <= maxDescriptor; ...):
\* skip what is not in _activeDescriptors, note the others as the new
\* maximum, and go to the lookup when input is pending
LoopScan ==
    /\ Alive
    /\ UNCHANGED otherVars
    /\ lp.pc = "scan"
    /\ Idle("loop")
    /\ IF lp.currentDescriptor > lp.maxDescriptor
       THEN lp' = [lp EXCEPT !.pc = "endcycle"]
       ELSE /\ CanLock(srvMutex, "loop")
            /\ IF lp.currentDescriptor \notin activeDescriptors
               THEN lp' = [lp EXCEPT !.currentDescriptor = @ + 1]
               ELSE IF lp.currentDescriptor \in lp.readReady
               THEN lp' = [lp EXCEPT !.newMaxDescriptor = lp.currentDescriptor,
                                     !.pc = "lookup"]
               ELSE lp' = [lp EXCEPT !.newMaxDescriptor = lp.currentDescriptor,
                                     !.currentDescriptor = @ + 1]
    /\ UNCHANGED << srvVars, srvMutex, sock, osOpen, backlog, peer, stack, up,
                    events, gh >>

\* currentSocket = _socketMap.at(currentDescriptor), which throws on a
\* missing key; then currentSocket->socketReadyRead()
LoopLookup ==
    /\ Alive
    /\ UNCHANGED otherVars
    /\ lp.pc = "lookup"
    /\ CanLock(srvMutex, "loop")
    /\ LET c == socketMap[lp.currentDescriptor]
       IN IF c = NoConn
          THEN /\ gh' = [gh EXCEPT !.crashed = TRUE]
               /\ UNCHANGED << lp, stack >>
          ELSE /\ lp' = [lp EXCEPT !.currentSocket = c, !.pc = "in_rr"]
               /\ stack' = Push("loop", Frame("socketReadyRead", "rr_enter", c))
               /\ gh' = gh
    /\ UNCHANGED << srvVars, srvMutex, sock, osOpen, backlog, peer, up, events >>

\* if ( socketReadyRead() <= 0 ) the loop closes the connection
LoopClosesOn(result) == result <= 0

\* currentSocket->close() after a non-positive result
LoopAfterRead ==
    /\ Alive
    /\ UNCHANGED otherVars
    /\ lp.pc = "after_rr"
    /\ Idle("loop")
    /\ LoopClosesOn(lp.result)
    /\ lp' = [lp EXCEPT !.pc = "reset", !.result = 0]
    /\ stack' = Push("loop", Frame("close", "cl_enter", lp.currentSocket))
    /\ UNCHANGED << srvVars, srvMutex, sock, osOpen, backlog, peer, up, events, gh >>

\* currentSocket is reset or leaves scope (the last reference destroys the
\* object), and the scan goes on with the next descriptor
LoopReset ==
    /\ Alive
    /\ UNCHANGED otherVars
    /\ \/ lp.pc = "reset"
       \/ lp.pc = "after_rr" /\ ~LoopClosesOn(lp.result)
    /\ Idle("loop")
    /\ lp' = [lp EXCEPT !.currentSocket = NoConn, !.result = 0,
                        !.currentDescriptor = @ + 1, !.pc = "scan"]
    /\ stack' = IF RefCount(lp.currentSocket) = 1
                THEN Push("loop", DtorFrame(lp.currentSocket))
                ELSE stack
    /\ UNCHANGED << srvVars, srvMutex, sock, osOpen, backlog, peer, up, events, gh >>

\* maxDescriptor = newMaxDescriptor; continueRunning = _serverIsRunning
LoopEndCycle ==
    /\ Alive
    /\ UNCHANGED otherVars
    /\ lp.pc = "endcycle"
    /\ Idle("loop")
    /\ CanLock(srvMutex, "loop")
    /\ lp' = IF serverIsRunning
             THEN [NoLocals("snap") EXCEPT !.maxDescriptor = lp.newMaxDescriptor]
             ELSE NoLocals("st_lock")
    /\ UNCHANGED << srvVars, srvMutex, sock, osOpen, backlog, peer, stack, up,
                    events, gh >>

\* -------------------------------------------------- TLSServer::stopTask
\* _mutex.lock(), held until the registry is cleared
StopTaskLock ==
    /\ Alive
    /\ UNCHANGED otherVars
    /\ lp.pc = "st_lock"
    /\ Idle("loop")
    /\ CanLock(srvMutex, "loop")
    /\ srvMutex' = Locked(srvMutex, "loop")
    /\ lp' = [lp EXCEPT !.todo = {fd \in Fds : socketMap[fd] # NoConn},
                        !.pc = "st_iter"]
    /\ gh' = [gh EXCEPT !.openAtDrain = OpenWithSink \cap Registered]
    /\ UNCHANGED << srvVars, sock, osOpen, backlog, peer, stack, up, events >>

NextKey == CHOOSE fd \in lp.todo : \A g \in lp.todo : fd <= g

\* for (auto const& x : _socketMap): tlsSocket = x.second;
\* FD_CLR(tlsSocket->_socketDescriptor, &_activeDescriptors)
StopTaskIter ==
    /\ Alive
    /\ UNCHANGED otherVars
    /\ lp.pc = "st_iter"
    /\ Idle("loop")
    /\ lp.todo # {}
    /\ lp' = [lp EXCEPT !.tlsSocket = socketMap[NextKey], !.todo = @ \ {NextKey},
                        !.pc = "st_release"]
    /\ activeDescriptors' \in FdClrOutcomes(activeDescriptors, sock[socketMap[NextKey]].fd)
    /\ UNCHANGED << serverSocket, serverIsRunning, serverIsShutdown, socketMap,
                    srvMutex, sock, osOpen, backlog, peer, stack, up, events, gh >>

\* variant: a drain that closes the connection with its owner still set
DrainKeepsOwner(s) == s

\* tlsSocket->releaseOwner() in the drain, before tlsSocket->close()
DrainReleasesOwner(s) == ReleaseOwner(s)

\* tlsSocket->releaseOwner(), then tlsSocket->close(); tlsSocket.reset()
\* follows when close() has returned
StopTaskRelease ==
    /\ Alive
    /\ UNCHANGED otherVars
    /\ lp.pc = "st_release"
    /\ CanLock(SockMutex(lp.tlsSocket), "loop")
    /\ sock' = [sock EXCEPT ![lp.tlsSocket] = DrainReleasesOwner(@)]
    /\ stack' = Push("loop", [Frame("close", "cl_enter", lp.tlsSocket)
                                 EXCEPT !.drain = TRUE])
    /\ lp' = [lp EXCEPT !.pc = "st_iter"]
    /\ UNCHANGED << srvVars, srvMutex, osOpen, backlog, peer, up, events, gh >>

\* the destructors of the connections whose last reference the registry held
RECURSIVE DtorFrames(_)
DtorFrames(S) ==
    IF S = {}
    THEN << >>
    ELSE LET c == CHOOSE x \in S : \A y \in S : x <= y
         IN << DtorFrame(c) >> \o DtorFrames(S \ {c})

\* after the last entry: _socketMap.clear()
StopTaskClear ==
    /\ Alive
    /\ UNCHANGED otherVars
    /\ lp.pc = "st_iter"
    /\ Idle("loop")
    /\ lp.todo = {}
    /\ socketMap' = [fd \in Fds |-> NoConn]
    /\ stack' = [stack EXCEPT !["loop"] =
                    DtorFrames({c \in Registered :
                        RefCountIn(socketMap, NoConn, NoConn, up.ref, c) = 1})]
    /\ lp' = [lp EXCEPT !.tlsSocket = NoConn, !.pc = "st_unlock"]
    /\ UNCHANGED << serverSocket, serverIsRunning, serverIsShutdown,
                    activeDescriptors, srvMutex, sock, osOpen, backlog, peer, up,
                    events, gh >>

\* _mutex.unlock(); Task::stopTask(): the loop thread is gone
StopTaskUnlock ==
    /\ Alive
    /\ UNCHANGED otherVars
    /\ lp.pc = "st_unlock"
    /\ Idle("loop")
    /\ srvMutex' = Unlocked(srvMutex)
    /\ lp' = [lp EXCEPT !.pc = "stopped"]
    /\ UNCHANGED << srvVars, sock, osOpen, backlog, peer, stack, up, events, gh >>

\* ------------------------------------------------------------ specification
\* the application thread: listen and shutdown, and close and write on the
\* connections it was handed
ServerCalls ==
    \/ \E o \in {"ok", "fail"} : Listen(o)
    \/ UserReturn
    \/ Shutdown

SocketCalls ==
    \/ \E c \in ConnIds : UserLockPtr(c)
    \/ UserDropPtr
    \/ UserClose
    \/ \E r \in {1, 0, 0 - 1} : Write(r)

PeerStep ==
    \/ \E c \in ConnIds, p \in Payloads : PeerData(c, p)
    \/ \E c \in ConnIds : PeerClose(c)

CallStep(T) ==
    \/ \E t \in T : CloseEnter(t)
    \/ \E t \in T : CloseTeardown(t)
    \/ \E t \in T : CloseNotify(t)
    \/ \E t \in T : RemoveSocketEnter(t)
    \/ \E t \in T : RemoveSocketErase(t)
    \/ \E t \in T : RemoveSocketRelease(t)
    \/ \E a \in BOOLEAN : SendNewConnectionEvent("loop", a)
    \/ SendNewConnectionUnlock("loop")
    \/ \E hs \in HandshakeResults, fc \in {0, 0 - 1} : ReadyReadEnter("loop", hs, fc, FALSE)
    \/ ReadyReadUnlock("loop")
    \/ ReadyReadNotify("loop")
    \/ ReadyReadReturn("loop")

LoopStep ==
    \/ LoopInit
    \/ LoopSnapshot
    \/ LoopSelectReady
    \/ LoopSelectFail
    \/ LoopSelectFailed
    \/ LoopRecheck
    \/ LoopNoAccept
    \/ LoopAcceptFail
    \/ LoopAcceptOk
    \/ LoopScan
    \/ LoopLookup
    \/ LoopAfterRead
    \/ LoopReset
    \/ LoopEndCycle

StopStep ==
    \/ StopTaskLock
    \/ StopTaskIter
    \/ StopTaskRelease
    \/ StopTaskClear
    \/ StopTaskUnlock

\* Spec: the server, its loop thread, and an application thread that calls
\* the server and works on the connections it was handed, with MaxAppConns
\* clients
Next ==
    \/ ServerCalls
    \/ SocketCalls
    \/ PeerConnect(MaxAppConns)
    \/ PeerStep
    \/ CallStep(Threads)
    \/ LoopStep
    \/ StopStep

Spec == Init /\ [][Next]_vars

\* SpecServer: MaxConns clients, and an application that calls listen and
\* shutdown and otherwise only receives the events
NextServer ==
    \/ ServerCalls
    \/ PeerConnect(MaxConns)
    \/ PeerStep
    \/ CallStep({"loop"})
    \/ LoopStep
    \/ StopStep

SpecServer == Init /\ [][NextServer]_vars

\* SpecEcho: one payload per client. After listen a client connects, and
\* once its handshake has succeeded and the sink has attached its handler it
\* sends "abc" and then closes; the server is not shut down.
EchoListen == Listen("ok")

EchoData == \E c \in ConnIds : sock[c].sslAccepted /\ peer[c].sent = 0 /\ PeerData(c, Abc)

EchoClose == \E c \in ConnIds : peer[c].sent > 0 /\ PeerClose(c)

EchoHandshake == \E fc \in {0, 0 - 1} : ReadyReadEnter("loop", 1, fc, FALSE)

EchoAnnounce == SendNewConnectionEvent("loop", TRUE)

NextEcho ==
    \/ EchoListen
    \/ UserReturn
    \/ PeerConnect(MaxAppConns)
    \/ EchoData
    \/ EchoClose
    \/ EchoHandshake
    \/ EchoAnnounce
    \/ SendNewConnectionUnlock("loop")
    \/ ReadyReadUnlock("loop")
    \/ ReadyReadNotify("loop")
    \/ ReadyReadReturn("loop")
    \/ CloseEnter("loop")
    \/ CloseTeardown("loop")
    \/ CloseNotify("loop")
    \/ RemoveSocketEnter("loop")
    \/ RemoveSocketErase("loop")
    \/ RemoveSocketRelease("loop")
    \/ LoopInit
    \/ LoopSnapshot
    \/ LoopSelectReady
    \/ LoopRecheck
    \/ LoopNoAccept
    \/ LoopAcceptOk
    \/ LoopScan
    \/ LoopLookup
    \/ LoopAfterRead
    \/ LoopReset
    \/ LoopEndCycle

SpecEcho == Init /\ [][NextEcho]_vars

\* SpecReadFault: SpecEcho with a client that may also send a record longer
\* than the initial buffer, and a TLS library that may fail the read that
\* follows the first read of a call
FaultData ==
    \E c \in ConnIds :
        sock[c].sslAccepted /\ peer[c].sent = 0 /\ PeerData(c, LongRecord)

FaultRead == \E fc \in {0, 0 - 1} : ReadyReadEnter("loop", 1, fc, TRUE)

NextReadFault ==
    \/ NextEcho
    \/ FaultData
    \/ FaultRead

SpecReadFault == Init /\ [][NextReadFault]_vars

\* SpecRawClose: Spec with an application that also calls close() through
\* the TLSSocket& it was given in a callback, holding no shared pointer
RawClose(c) ==
    /\ Alive
    /\ UNCHANGED otherVars
    /\ up.pc = "idle"
    /\ Idle("user")
    /\ up.ref = NoConn
    /\ sock[c].exists
    /\ sock[c].announced
    /\ ~sock[c].destroyed
    /\ RefCount(c) > 0
    /\ stack' = Push("user", Frame("close", "cl_enter", c))
    /\ UNCHANGED << srvVars, srvMutex, sock, osOpen, backlog, peer, lp, up,
                    events, gh >>

\* a call that goes on with an object its thread has destroyed reads and
\* writes freed memory: it may end the process (the other outcome is that
\* the call runs on)
UseAfterDestroy(t) ==
    /\ Alive
    /\ UNCHANGED otherVars
    /\ stack[t] # << >>
    /\ sock[Top(t).c].destroyed
    /\ Top(t).pc # "rs_unlock"
    /\ gh' = [gh EXCEPT !.crashed = TRUE]
    /\ UNCHANGED << srvVars, srvMutex, sock, osOpen, backlog, peer, stack, lp,
                    up, events >>

NextRawClose ==
    \/ Next
    \/ \E c \in ConnIds : RawClose(c)
    \/ RemoveSocketUnlock("user")
    \/ UseAfterDestroy("user")

SpecRawClose == Init /\ [][NextRawClose]_vars

\* SpecFair: Spec with fair scheduling. Each thread is a task of its own; a
\* thread only ever waits for one of the two mutexes, and a thread waiting
\* for a mutex gets it once it is released often enough, so a thread that
\* can take a step again and again eventually takes one.
LoopThread == LoopStep \/ StopStep \/ CallStep({"loop"})

UserThread ==
    \/ CloseEnter("user")
    \/ CloseTeardown("user")
    \/ CloseNotify("user")
    \/ RemoveSocketEnter("user")
    \/ RemoveSocketErase("user")
    \/ RemoveSocketRelease("user")
    \/ UserReturn

SpecFair == Spec /\ SF_vars(LoopThread) /\ SF_vars(UserThread)

\* ================================================================ WebSocket
\* The client object, its task (WebSocket::run) and one application thread
\* that calls the public interface. One action is one stretch of code
\* between two accesses to what the other thread can see.

\* a fault of the process (failed configASSERT, heap corruption detected)
\* or the destruction of the object ends the model of the WebSocket
WsAlive == ~wh.crashed /\ ~ws.destroyed

\* the task holds _stateMutex while it executes setWebsocketState(): a
\* tryLock() of the application can fail exactly then
TaskInSetState ==
    \/ wt.pc \in {"stopping", "connect", "ct_connected", "a_idle"}
    \/ wt.pc = "wait" /\ ws.queue \in {"Connect", "Stop"}

\* the application's call returns
WsReturn(op, seen, r) ==
    wu' = [op |-> op, pc |-> "idle", seen |-> seen, ret |-> r]

\* -------------------------------------------------- WebSocket::cleanup
\* delete [] frees the buffer and leaves the pointer as it was
Released(b) == IF b = "alloc" THEN "freed" ELSE b

DoubleFreed(w) == w.rx = "freed" \/ w.tx = "freed"

Cleanup(w) ==
    [w EXCEPT !.transportList = FALSE, !.rx = Released(@),
              !.tx = Released(@), !.queue = "null"]

\* freeing a freed buffer is undefined: the heap may detect it and abort,
\* or the program goes on
AfterCleanup(w) ==
    \E abort \in BOOLEAN :
        wh' = [wh EXCEPT !.doubleFree = @ \/ DoubleFreed(w),
                         !.crashed = DoubleFreed(w) /\ abort]

\* -------------------------------------------------- WebSocket::start
StartPermitted == {"Stopped"}

WsStart ==
    /\ WsAlive
    /\ wu.pc = "idle"
    /\ IF ws.state \in StartPermitted
       THEN \/ \* xQueueCreate fails
               /\ ws' = [ws EXCEPT !.queue = "null"]
               /\ WsReturn("start", ws.state, "false")
               /\ UNCHANGED << wt, wh >>
            \/ \* initTransportList fails: cleanup()
               /\ ws' = Cleanup([ws EXCEPT !.queue = "empty"])
               /\ AfterCleanup(ws)
               /\ WsReturn("start", ws.state, "false")
               /\ UNCHANGED wt
            \/ /\ ws' = [ws EXCEPT !.queue = "empty", !.transportList = TRUE,
                                   !.rx = "alloc", !.tx = "alloc",
                                   !.state = "Idle"]
               /\ wt' = [pc |-> "switch", after |-> "check"]
               /\ wh' = [wh EXCEPT !.stopAccepted = FALSE]
               /\ WsReturn("start", ws.state, "true")
       ELSE /\ WsReturn("start", ws.state, "false")
            /\ UNCHANGED << ws, wt, wh >>
    /\ UNCHANGED << tlsVars, dns >>

\* ------------------------- WebSocket::connect / disconnect / stop
ConnectPermitted == {"Idle"}

DisconnectPermitted == {"Connecting", "Connected"}

StopPermittedBusy == {"Idle", "Connected"}

StopPermitted == {"Idle"}

QueuedCalls == {"connect", "disconnect", "stop"}

PermittedFor(op) ==
    CASE op = "connect" -> ConnectPermitted
      [] op = "disconnect" -> DisconnectPermitted
      [] op = "stop" -> StopPermitted

ActionOf(op) ==
    CASE op = "connect" -> "Connect"
      [] op = "disconnect" -> "Disconnect"
      [] op = "stop" -> "Stop"

\* tryLock, read of the state, unlock
WsQueuedCall(op) ==
    /\ WsAlive
    /\ wu.pc = "idle"
    /\ \/ /\ TaskInSetState
          /\ WsReturn(op, "locked", "false")
       \/ /\ ws.state \in PermittedFor(op)
          /\ wu' = [op |-> op, pc |-> "send", seen |-> ws.state,
                    ret |-> "none"]
       \/ /\ ws.state \notin PermittedFor(op)
          /\ WsReturn(op, ws.state, "false")
    /\ UNCHANGED << ws, wt, wh, tlsVars, dns >>

\* xQueueSend with no wait on the queue of length one
WsQueueSend ==
    /\ WsAlive
    /\ wu.pc = "send"
    /\ CASE ws.queue = "null" ->
               /\ wh' = [wh EXCEPT !.crashed = TRUE]
               /\ UNCHANGED << ws, wu >>
         [] ws.queue = "empty" ->
               /\ ws' = [ws EXCEPT !.queue = ActionOf(wu.op)]
               /\ wh' = [wh EXCEPT !.stopAccepted = @ \/ wu.op = "stop"]
               /\ WsReturn(wu.op, wu.seen, "true")
         [] OTHER ->
               /\ WsReturn(wu.op, wu.seen, "false")
               /\ UNCHANGED << ws, wh >>
    /\ UNCHANGED << wt, tlsVars, dns >>

\* ------------------------- WebSocket::setURL / setCaCertificate
SetterPermitted == {"Idle"}

Setters == {"setURL", "setCaCertificate"}

WsSetterCall(op) ==
    /\ WsAlive
    /\ wu.pc = "idle"
    /\ IF ws.state \in SetterPermitted
       THEN wu' = [op |-> op, pc |-> "set", seen |-> ws.state, ret |-> "none"]
       ELSE WsReturn(op, ws.state, "false")
    /\ UNCHANGED << ws, wt, wh, tlsVars, dns >>

\* WebSocket::parseURL: the schema is stored when it is ws (or wss)
Urls == {"ws", "other"}

ParseURL(w, url) == IF url = "ws" THEN [w EXCEPT !.schema = "WS"] ELSE w

WsSetURL ==
    /\ WsAlive
    /\ wu.pc = "set"
    /\ wu.op = "setURL"
    /\ \E url \in Urls :
          /\ ws' = ParseURL(ws, url)
          /\ WsReturn(wu.op, wu.seen, IF url = "ws" THEN "true" ELSE "false")
    /\ UNCHANGED << wt, wh, tlsVars, dns >>

WsSetCaCertificate ==
    /\ WsAlive
    /\ wu.pc = "set"
    /\ wu.op = "setCaCertificate"
    /\ ws' = [ws EXCEPT !.cert = @ \/ ws.transportList]
    /\ WsReturn(wu.op, wu.seen, "true")
    /\ UNCHANGED << wt, wh, tlsVars, dns >>

\* -------------------------------------------------- WebSocket::setBufferSize
BufferSizes == {WEBSOCKET_BUFFER_SIZE, 2 * WEBSOCKET_BUFFER_SIZE}

BufferSizePermitted == {"Stopped"}

WsSetBufferSize ==
    /\ WsAlive
    /\ wu.pc = "idle"
    /\ IF ws.state \in BufferSizePermitted
       THEN \E n \in BufferSizes :
               /\ ws' = [ws EXCEPT !.bufferSize = n]
               /\ WsReturn("setBufferSize", ws.state, "true")
       ELSE /\ WsReturn("setBufferSize", ws.state, "false")
            /\ UNCHANGED ws
    /\ UNCHANGED << wt, wh, tlsVars, dns >>

\* -------------------------------------------------- WebSocket::abortConnection
\* runs on the task and, after a failed write, on the application thread
WsPc(t) == IF t = "task" THEN wt.pc ELSE wu.pc

WsGoto(t, p) ==
    IF t = "task"
    THEN wt' = [wt EXCEPT !.pc = p] /\ UNCHANGED wu
    ELSE wu' = [wu EXCEPT !.pc = p] /\ UNCHANGED wt

AbortClose(t) ==
    /\ WsAlive
    /\ WsPc(t) = "a_close"
    /\ ws' = [ws EXCEPT !.transport = IF @ = "open" THEN "closed" ELSE @]
    /\ WsGoto(t, "a_idle")
    /\ UNCHANGED << wh, tlsVars, dns >>

AbortIdle(t) ==
    /\ WsAlive
    /\ WsPc(t) = "a_idle"
    /\ ws' = [ws EXCEPT !.state = "Idle"]
    /\ WsGoto(t, "a_reset")
    /\ UNCHANGED << wh, tlsVars, dns >>

AbortReset(t) ==
    /\ WsAlive
    /\ WsPc(t) = "a_reset"
    /\ IF ws.queue = "null"
       THEN /\ wh' = [wh EXCEPT !.crashed = TRUE]
            /\ UNCHANGED << ws, wt, wu >>
       ELSE /\ ws' = [ws EXCEPT !.queue = "empty"]
            /\ WsGoto(t, "a_notify")
            /\ UNCHANGED wh
    /\ UNCHANGED << tlsVars, dns >>

\* webSocketDisconnected(), counted per connection attempt
Notified(h) == [h EXCEPT !.disc = IF @ < 2 THEN @ + 1 ELSE @]

AbortNotify(t) ==
    /\ WsAlive
    /\ WsPc(t) = "a_notify"
    /\ wh' = Notified(wh)
    /\ IF t = "task"
       THEN wt' = [wt EXCEPT !.pc = wt.after] /\ UNCHANGED wu
       ELSE WsReturn(wu.op, wu.seen, "false") /\ UNCHANGED wt
    /\ UNCHANGED << ws, tlsVars, dns >>

AbortStep(t) ==
    AbortClose(t) \/ AbortIdle(t) \/ AbortReset(t) \/ AbortNotify(t)

\* -------------------------------------------------- WebSocket::sendWithOpcode
WsSendCall ==
    /\ WsAlive
    /\ wu.pc = "idle"
    /\ IF ws.state = "Connected"
       THEN wu' = [op |-> "send", pc |-> "write", seen |-> ws.state,
                   ret |-> "none"]
       ELSE WsReturn("send", ws.state, "false")
    /\ UNCHANGED << ws, wt, wh, tlsVars, dns >>

WsWrite ==
    /\ WsAlive
    /\ wu.pc = "write"
    /\ \/ /\ ws.transport = "null"
          /\ WsReturn(wu.op, wu.seen, "false")
       \/ /\ ws.transport = "open"
          /\ WsReturn(wu.op, wu.seen, "true")
       \/ \* esp_transport_ws_send_raw fails
          /\ ws.transport # "null"
          /\ wu' = [wu EXCEPT !.pc = "a_close"]
    /\ UNCHANGED << ws, wt, wh, tlsVars, dns >>

\* -------------------------------------------------- WebSocket::~WebSocket
WsDestroy ==
    /\ WsAlive
    /\ wu.pc = "idle"
    /\ ws' = [Cleanup(ws) EXCEPT !.state = "Stopped", !.destroyed = TRUE]
    /\ AfterCleanup(ws)
    /\ wt' = IF ws.state # "Stopped" THEN [wt EXCEPT !.pc = "ended"] ELSE wt
    /\ WsReturn("destroy", ws.state, "none")
    /\ UNCHANGED << tlsVars, dns >>

\* -------------------------------------------------- WebSocket::run
TaskSwitch ==
    /\ WsAlive
    /\ wt.pc = "switch"
    /\ wt' = [pc |-> CASE ws.state = "Idle" -> "wait"
                       [] ws.state = "Stopping" -> "stopping"
                       [] ws.state = "Connecting" -> "connect"
                       [] ws.state = "Connected" -> "poll"
                       [] OTHER -> "check",
              after |-> "check"]
    /\ UNCHANGED << ws, wu, wh, tlsVars, dns >>

\* case Stopping: Stopped, cleanup(), stopTask()
TaskStopping ==
    /\ WsAlive
    /\ wt.pc = "stopping"
    /\ ws' = Cleanup([ws EXCEPT !.state = "Stopped"])
    /\ AfterCleanup(ws)
    /\ wt' = [wt EXCEPT !.pc = "ended"]
    /\ UNCHANGED << wu, tlsVars, dns >>

\* case Connected: esp_transport_poll_read, readData
TaskPoll ==
    /\ WsAlive
    /\ wt.pc = "poll"
    /\ \/ \* nothing to read, or a message read and delivered
          /\ ws.transport = "open"
          /\ wt' = [wt EXCEPT !.pc = "check"]
       \/ \* the poll or the read fails
          /\ wt' = [wt EXCEPT !.pc = "a_close"]
    /\ UNCHANGED << ws, wu, wh, tlsVars, dns >>

\* -------------------------------------------------- WebSocket::waitForEvent
\* xQueuePeek blocks until the queue holds a request
TaskWait ==
    /\ WsAlive
    /\ wt.pc = "wait"
    /\ ws.queue \in {"Connect", "Disconnect", "Stop"}
    /\ CASE ws.queue = "Connect" ->
               /\ ws' = [ws EXCEPT !.state = "Connecting"]
               /\ wh' = [wh EXCEPT !.disc = 0]
               /\ wt' = [wt EXCEPT !.pc = "wfe_reset"]
         [] ws.queue = "Stop" ->
               /\ ws' = [ws EXCEPT !.state = "Stopping"]
               /\ wt' = [wt EXCEPT !.pc = "wfe_reset"]
               /\ UNCHANGED wh
         [] OTHER ->
               /\ wt' = [wt EXCEPT !.pc = "check"]
               /\ UNCHANGED << ws, wh >>
    /\ UNCHANGED << wu, tlsVars, dns >>

TaskWfeReset ==
    /\ WsAlive
    /\ wt.pc = "wfe_reset"
    /\ ws' = [ws EXCEPT !.queue = "empty"]
    /\ wt' = [wt EXCEPT !.pc = "check"]
    /\ UNCHANGED << wu, wh, tlsVars, dns >>

\* -------------------------------------------------- WebSocket::connectTransport
TaskConnect ==
    /\ WsAlive
    /\ wt.pc = "connect"
    /\ IF ws.schema = "Invalid"
       THEN /\ ws' = [ws EXCEPT !.transport = "null", !.state = "Idle"]
            /\ wt' = [wt EXCEPT !.pc = "check"]
       ELSE \/ \* esp_transport_connect fails
               /\ ws' = [ws EXCEPT !.transport = "closed", !.state = "Idle"]
               /\ wt' = [wt EXCEPT !.pc = "ct_notify"]
            \/ /\ ws' = [ws EXCEPT !.transport = "open"]
               /\ wt' = [wt EXCEPT !.pc = "ct_connected"]
    /\ UNCHANGED << wu, wh, tlsVars, dns >>

TaskConnectFailed ==
    /\ WsAlive
    /\ wt.pc = "ct_notify"
    /\ wh' = Notified(wh)
    /\ wt' = [wt EXCEPT !.pc = "check"]
    /\ UNCHANGED << ws, wu, tlsVars, dns >>

\* setWebsocketState(Connected), webSocketConnected()
TaskConnected ==
    /\ WsAlive
    /\ wt.pc = "ct_connected"
    /\ ws' = [ws EXCEPT !.state = "Connected"]
    /\ wt' = [wt EXCEPT !.pc = "check"]
    /\ UNCHANGED << wu, wh, tlsVars, dns >>

\* -------------------------------------------------- WebSocket::checkForDisconnectEvent
TaskCheck ==
    /\ WsAlive
    /\ wt.pc = "check"
    /\ IF ws.queue = "Disconnect"
       THEN /\ ws' = [ws EXCEPT !.queue = "empty"]
            /\ wt' = [pc |-> "a_close", after |-> "switch"]
       ELSE /\ wt' = [wt EXCEPT !.pc = "switch"]
            /\ UNCHANGED ws
    /\ UNCHANGED << wu, wh, tlsVars, dns >>

WsTask ==
    \/ TaskSwitch
    \/ TaskStopping
    \/ TaskPoll
    \/ TaskWait
    \/ TaskWfeReset
    \/ TaskConnect
    \/ TaskConnectFailed
    \/ TaskConnected
    \/ TaskCheck
    \/ AbortStep("task")

NextWS ==
    \/ WsStart
    \/ \E op \in QueuedCalls : WsQueuedCall(op)
    \/ WsQueueSend
    \/ \E op \in Setters : WsSetterCall(op)
    \/ WsSetURL
    \/ WsSetCaCertificate
    \/ WsSetBufferSize
    \/ WsSendCall
    \/ WsWrite
    \/ AbortStep("user")
    \/ WsDestroy
    \/ WsTask

SpecWS == Init /\ [][NextWS]_vars

\* a call in progress on the application thread
WsCallInProgress ==
    \/ WsQueueSend
    \/ WsSetURL
    \/ WsSetCaCertificate
    \/ WsWrite
    \/ AbortStep("user")

\* the scheduler runs the task whenever it can take a step, and a call that
\* has begun runs to its return
SpecWSFair == SpecWS /\ WF_vars(WsTask) /\ WF_vars(WsCallInProgress)

\* ======================================================= SimpleDNSResponder
\* The loop of SimpleDNSResponder::run: receive a datagram, processMessage,
\* send the response. A message is the sequence of its bytes; offset o of the
\* buffer is element o + 1 of the sequence.

\* the address given to start()
ConfiguredIp == << 192, 168, 4, 1 >>

\* what uninitialised or stale memory can hold
Garbage == {0, 255}

\* the byte at an offset; beyond what was received the buffer holds garbage
At(buf, o, g) == IF o < Len(buf) THEN buf[o + 1] ELSE g

\* memcpy / field assignment of bytes at an offset
Store(buf, o, bytes, g) ==
    LET n == IF Len(buf) > o + Len(bytes) THEN Len(buf) ELSE o + Len(bytes)
    IN  [i \in 1 .. n |->
            IF i > o /\ i <= o + Len(bytes) THEN bytes[i - o]
            ELSE IF i <= Len(buf) THEN buf[i]
            ELSE g]

\* ntohs of the 16-bit field at an offset
Ntohs(buf, o, g) == At(buf, o, g) * 256 + At(buf, o + 1, g)

\* the bytes in memory of htons(v)
Htons(v) == << v \div 256, v % 256 >>

\* the value of htons(v) on the little-endian target
HtonsValue(v) == (v % 256) * 256 + v \div 256

\* the parameter uint16_t messageSize receives an int
ToUint16(n) == n % 65536

\* header fields of the packed struct DNSMessageHeader
QROf(buf, g) == At(buf, 2, g) \div 128

OPCodeOf(buf, g) == (At(buf, 2, g) \div 8) % 16

\* -------------------------------------------------- SimpleDNSResponder::processError
ProcessErrorKeepsCounts(buf, responseCode, messageSize, g) ==
    LET flags == (At(buf, 2, g) % 128) + 128
        codes == 128 + ((At(buf, 3, g) \div 16) % 8) * 16 + responseCode
    IN  [size |-> messageSize,
         buffer |-> Store(buf, 2, << flags, codes >>, g)]

ProcessError(buf, responseCode, messageSize, g) ==
    LET flags == (At(buf, 2, g) % 128) + 128
        codes == 128 + ((At(buf, 3, g) \div 16) % 8) * 16 + responseCode
        qd == IF messageSize > HeaderSize THEN Htons(1) ELSE << 0, 0 >>
    IN  [size |-> messageSize,
         buffer |-> Store(buf, 2,
                          << flags, codes >> \o qd \o << 0, 0, 0, 0, 0, 0 >>,
                          g)]

\* -------------------------------------------------- SimpleDNSResponder::processMessage
\* the walk over the labels of QNAME: the offset after the name, or -1
RECURSIVE SkipName(_, _, _, _)
SkipName(buf, p, messageEnd, g) ==
    IF p >= messageEnd THEN 0 - 1
    ELSE LET labelLength == At(buf, p, g)
         IN  IF labelLength > MaxLabelLength THEN 0 - 1
             ELSE IF labelLength = 0 THEN p + 1
             ELSE SkipName(buf, p + labelLength + 1, messageEnd, g)

AnswerRecord ==
    Htons(49152 + HeaderSize) \o Htons(DNS_TYPE_A) \o Htons(DNS_CLASS_IN)
        \o << 0, 0, 0, 0 >> \o Htons(Len(ConfiguredIp)) \o ConfiguredIp

Answered(buf, p, g) ==
    LET cleared == IF At(buf, 10, g) # 0 \/ At(buf, 11, g) # 0
                   THEN Store(buf, 10, << 0, 0 >>, g)
                   ELSE buf
        withAnswer == Store(cleared, p, AnswerRecord, g)
        flags == (At(buf, 2, g) % 128) + 128
        codes == (At(buf, 3, g) % 128) + 128 * (HtonsValue(1) % 2)
    IN  Store(Store(withAnswer, 6, Htons(1), g), 2, << flags, codes >>, g)

ProcessMessage(buf, messageSize, g) ==
    IF messageSize < HeaderSize THEN [size |-> 0, buffer |-> buf]
    ELSE IF QROf(buf, g) # 0 THEN [size |-> 0, buffer |-> buf]
    ELSE IF OPCodeOf(buf, g) # 0
    THEN ProcessError(buf, DNS_RESPONSE_FORMAT_ERROR, HeaderSize, g)
    ELSE IF Ntohs(buf, 6, g) # 0 \/ Ntohs(buf, 8, g) # 0
    THEN ProcessError(buf, DNS_RESPONSE_FORMAT_ERROR, HeaderSize, g)
    ELSE IF Ntohs(buf, 4, g) # 1
    THEN ProcessError(buf, DNS_RESPONSE_FORMAT_ERROR, HeaderSize, g)
    ELSE
      LET p == SkipName(buf, HeaderSize, messageSize, g)
      IN  IF p < 0 \/ p + 4 > messageSize
          THEN ProcessError(buf, DNS_RESPONSE_FORMAT_ERROR, HeaderSize, g)
          ELSE
            LET questionLength == p - HeaderSize + 4
                qType == Ntohs(buf, p, g)
                qClass == Ntohs(buf, p + 2, g)
                cleared == IF At(buf, 10, g) # 0 \/ At(buf, 11, g) # 0
                           THEN Store(buf, 10, << 0, 0 >>, g)
                           ELSE buf
                responseMessageSize ==
                    HeaderSize + questionLength + AnswerSize
            IN  IF qType # DNS_TYPE_A /\ qType # DNS_TYPE_ALL
                THEN ProcessError(buf, DNS_RESPONSE_NAME_ERROR,
                                  HeaderSize + questionLength, g)
                ELSE IF qClass # DNS_CLASS_IN /\ qClass # DNS_CLASS_ANY
                THEN ProcessError(buf, DNS_RESPONSE_NAME_ERROR,
                                  HeaderSize + questionLength, g)
                ELSE IF responseMessageSize > DNS_MAX_MESSAGE_SIZE
                THEN ProcessError(cleared, DNS_RESPONSE_FORMAT_ERROR,
                                  HeaderSize + questionLength, g)
                ELSE [size |-> responseMessageSize,
                      buffer |-> Answered(buf, p + 4, g)]

\* -------------------------------------------------- the datagrams received
\* a label of n bytes
Label(n) == << n >> \o [i \in 1 .. n |-> 97]

RECURSIVE Labels(_, _)
Labels(k, n) == IF k = 0 THEN << >> ELSE Label(n) \o Labels(k - 1, n)

\* names that are chains of labels closed by the root label
ShortNames ==
    { << 0 >>, Label(1) \o << 0 >>, Label(3) \o Label(2) \o << 0 >> }

\* the longest name a domain may have (255 bytes), and two longer chains:
\* with the first the response still fits the buffer, with the second it
\* does not
LongNames ==
    { Labels(3, MaxLabelLength) \o Label(61) \o << 0 >>,
      Labels(7, MaxLabelLength) \o Label(30) \o << 0 >>,
      Labels(7, MaxLabelLength) \o Label(33) \o << 0 >> }

ChainedNames == ShortNames \cup LongNames

\* a compression pointer, a label of 64 bytes, a name without the root label
\* and a label that runs past the end of the message
BrokenNames ==
    { << 192, 12 >>, Label(64) \o << 0 >>, Label(1), << 5, 97 >> }

QTypes == {DNS_TYPE_A, DNS_TYPE_ALL, 28, 257}

QClasses == {DNS_CLASS_IN, DNS_CLASS_ANY, 3}

\* QTYPE and QCLASS
TypeAndClass(t, c) == Htons(t) \o Htons(c)

AnsweredTails ==
    { TypeAndClass(t, c) : t \in {DNS_TYPE_A, DNS_TYPE_ALL},
                   c \in {DNS_CLASS_IN, DNS_CLASS_ANY} }

\* complete or cut short
QuestionTails ==
    { TypeAndClass(t, c) : t \in QTypes, c \in QClasses } \cup { << >>, << 0, 1, 0 >> }

\* data after the question (EDNS)
Trailers == { << >>, << 0, 0, 41 >> }

\* the flag byte with QR, OPCode, AA, TC, RD: a query, a query with RD, a
\* response, an inverse query
FlagBytes == {0, 1, 128, 8}

\* QDCount, ANCount, NSCount, ARCount
PlainCounts == << 1, 0, 0, 0 >>

CountSets ==
    { PlainCounts, << 1, 0, 0, 1 >>, << 0, 0, 0, 0 >>, << 2, 0, 0, 0 >>,
      << 257, 0, 0, 0 >>, << 1, 1, 0, 0 >>, << 1, 0, 1, 0 >> }

DnsHeader(f, c) ==
    << 18, 52, f, 0 >> \o Htons(c[1]) \o Htons(c[2]) \o Htons(c[3])
        \o Htons(c[4])

Assemble(q) == DnsHeader(q.flags, q.counts) \o q.name \o q.tail \o q.trailer

\* queries that vary the header, the name, the question and the length
Queries ==
    [flags : {0, 1}, counts : {PlainCounts, << 1, 0, 0, 1 >>},
     name : ShortNames, tail : AnsweredTails, trailer : Trailers, cut : {0}]
    \cup
    [flags : FlagBytes, counts : CountSets, name : {Label(1) \o << 0 >>},
     tail : {TypeAndClass(DNS_TYPE_A, DNS_CLASS_IN)}, trailer : Trailers, cut : {0}]
    \cup
    [flags : {0}, counts : {PlainCounts}, name : BrokenNames,
     tail : {TypeAndClass(DNS_TYPE_A, DNS_CLASS_IN), TypeAndClass(257, DNS_CLASS_IN),
             << >>, << 0, 1, 0 >>},
     trailer : Trailers, cut : {0}]
    \cup
    [flags : {0}, counts : {PlainCounts}, name : ShortNames,
     tail : QuestionTails, trailer : Trailers, cut : {0}]
    \cup
    [flags : {0}, counts : {PlainCounts}, name : LongNames,
     tail : {TypeAndClass(DNS_TYPE_A, DNS_CLASS_IN), TypeAndClass(28, DNS_CLASS_IN)},
     trailer : {<< >>}, cut : {0}]

\* datagrams shorter than a header: the first bytes of a query
ShortLengths == {0, 3, 11}

Fragments ==
    [flags : {0}, counts : {<< 1, 0, 0, 0 >>}, name : {Label(1) \o << 0 >>},
     tail : {TypeAndClass(DNS_TYPE_A, DNS_CLASS_IN)}, trailer : {<< >>},
     cut : {HeaderSize - n : n \in ShortLengths}]

\* the bytes of a datagram
Datagram(q) ==
    IF q.cut = 0 THEN Assemble(q)
    ELSE SubSeq(Assemble(q), 1, HeaderSize - q.cut)

\* -------------------------------------------------- SimpleDNSResponder::run
\* recvfrom returns a datagram
DnsReceive ==
    /\ dns.pc = "recv"
    /\ \E q \in Queries \cup Fragments :
          dns' = [pc |-> "process", query |-> q, buffer |-> Datagram(q),
                  messageSize |-> Len(Datagram(q)), responseSize |-> 0]
    /\ UNCHANGED << tlsVars, wsVars >>

\* recvfrom fails: the buffer keeps what it held
DnsReceiveFailed ==
    /\ dns.pc = "recv"
    /\ dns' = [dns EXCEPT !.pc = "process", !.messageSize = 0 - 1,
                          !.responseSize = 0]
    /\ UNCHANGED << tlsVars, wsVars >>

\* processMessage; sendto follows when it returned a size
DnsProcess ==
    /\ dns.pc = "process"
    /\ \E g \in Garbage :
          LET r == ProcessMessage(dns.buffer, ToUint16(dns.messageSize), g)
              n == IF r.size > Len(r.buffer) THEN r.size ELSE Len(r.buffer)
          IN  dns' = [dns EXCEPT
                        !.pc = "recv",
                        !.buffer = [i \in 1 .. n |-> At(r.buffer, i - 1, g)],
                        !.responseSize = r.size]
    /\ UNCHANGED << tlsVars, wsVars >>

\* the datagram handed to sendto: messageBuffer, responseMessageSize
Sent ==
    IF dns.pc = "recv" /\ dns.responseSize > 0
    THEN SubSeq(dns.buffer, 1, dns.responseSize)
    ELSE << >>

NextDNS == DnsReceive \/ DnsReceiveFailed \/ DnsProcess

SpecDNS == Init /\ [][NextDNS]_vars

\* ---------------------------------------------------------- sanity of the model
TypeOK ==
    /\ serverSocket \in Fds \cup {InvalidFd}
    /\ activeDescriptors \subseteq Fds \cup {InvalidFd}
    /\ osOpen \subseteq Fds
    /\ backlog \in 0 .. MaxConns
    /\ \A c \in ConnIds : sock[c].fd \in Fds \cup {InvalidFd}

NoCrash == ~gh.crashed

C2_OnlyAfterSuccess ==
    \A c \in ConnIds : sock[c].announced => sock[c].sslAccepted /\ sock[c].hs = "ok"

\* C3: once shutdown() has cleared the running flag, no step delivers a
\* tlsNewConnection.
C3_NoAnnounceAfterShutdown ==
    [][(gh.shutdownCalled /\ ~serverIsRunning)
        => \A c \in ConnIds : CountIn(events', c, "tlsNewConnection")
                                = CountIn(events, c, "tlsNewConnection")]_vars

\* a handshake succeeded after shutdown(): sendNewConnectionEvent has run
\* for the connection and has not announced it
C3_Witness ==
    /\ gh.shutdownCalled
    /\ InFrame("loop", "sendNewConnectionEvent", "sn_unlock")
    /\ sock[Top("loop").c].hs = "ok"
    /\ ~sock[Top("loop").c].announced
    /\ Count(Top("loop").c, "tlsNewConnection") = 0

\* C4: when the loop thread has finished after a shutdown(), the registry is
\* empty, the drain has notified exactly the connections that were still
\* open (established, sink attached) when it began, all of them open at
\* shutdown() already, and every connection that was open at shutdown() got
\* socketDisconnected exactly once.
C4_DrainNotifiesEach ==
    (lp.pc = "stopped" /\ gh.shutdownCalled)
    => /\ Registered = {}
       /\ gh.drainDisc = gh.openAtDrain
       /\ gh.openAtDrain \subseteq gh.openAtShutdown
       /\ \A c \in gh.openAtShutdown : Count(c, "socketDisconnected") = 1

\* the drain has ended after it closed MaxConns open connections
C4_Witness ==
    /\ lp.pc = "stopped"
    /\ gh.shutdownCalled
    /\ Cardinality(gh.openAtShutdown) = MaxConns
    /\ gh.drainDisc = gh.openAtShutdown

\* C5: a write() that found the connection closed has returned a
\* non-positive result and has not passed the released session to the TLS
\* library.
C5_WriteOnClosed ==
    (up.pc = "write_ret" /\ up.closed) => (up.ret <= 0 /\ ~up.freed)

\* C6: when a socketReadyRead call on a connection with a handler, whose
\* first read returned n1 bytes with k1 > 0 more pending, delivers, it
\* delivers one socketBytesReceived with n1 + k1 bytes, the only one of the
\* call.
C6_OneNotification ==
    [][(/\ InFrame("loop", "socketReadyRead", "rr_notify")
        /\ Top("loop").k1 > 0
        /\ sock[Top("loop").c].eventHandler
        /\ stack'["loop"] # stack["loop"])
        => LET f == Top("loop")
           IN /\ events'[f.c] = Append(events[f.c], BytesEvent(f.buf))
              /\ Len(f.buf) = f.n1 + f.k1
              /\ Count(f.c, "socketBytesReceived") = f.nb0]_vars

\* a record longer than the receive buffer was delivered in one notification
C6_Witness ==
    \E c \in ConnIds : \E i \in 1 .. Len(events[c]) :
        /\ events[c][i] = BytesEvent(LongRecord)
        /\ Count(c, "socketBytesReceived") = 1

\* C7: a listen() call that finds the server running returns false and
\* leaves the listening descriptor, the flags, the interest set, the
\* registry, the open descriptors, the connections and the loop thread as
\* they were, the listening descriptor still open.
C7_ListenWhileRunning ==
    [][(up.pc = "idle" /\ up'.pc = "listen_ret" /\ serverIsRunning)
        => /\ up'.ret = 0
           /\ serverSocket' \in osOpen'
           /\ UNCHANGED << srvVars, srvMutex, osOpen, sock, backlog, lp, stack >>]_vars

\* a second listen() has returned false while the first listener is open
C7_Witness ==
    /\ up.pc = "listen_ret"
    /\ up.ret = 0
    /\ serverIsRunning
    /\ serverSocket \in osOpen

\* C8: in the scenario of SpecEcho the events of a connection are always a
\* prefix of tlsNewConnection, socketBytesReceived("abc"), socketDisconnected;
\* once socketDisconnected was delivered they are all three, the connection
\* has no registry entry, and no interest bit is set without a registry entry.
EchoEvents == << NewEvent, BytesEvent(Abc), DiscEvent >>

C8_Echo ==
    \A c \in ConnIds :
        /\ Len(events[c]) <= 3
        /\ events[c] = SubSeq(EchoEvents, 1, Len(events[c]))
        /\ Count(c, "socketDisconnected") > 0
           => /\ events[c] = EchoEvents
              /\ c \notin Registered
              /\ \A fd \in activeDescriptors \ {serverSocket} :
                    fd \in Fds /\ socketMap[fd] # NoConn

\* the client is gone and the three events were delivered
C8_Witness ==
    \E c \in ConnIds :
        /\ sock[c].destroyed
        /\ events[c] = EchoEvents
        /\ Registered = {}
        /\ activeDescriptors = {serverSocket}

\* C9: whenever the server lock is free, a descriptor other than the
\* listening one is in the interest set iff the registry maps it to a
\* connection that is not closed.
LiveEntry(fd) ==
    /\ socketMap[fd] # NoConn
    /\ ~sock[socketMap[fd]].destroyed
    /\ sock[socketMap[fd]].fd = fd

C9_InterestIffLive ==
    srvMutex.holder = NoThread
    => \A fd \in Fds \ {serverSocket} : fd \in activeDescriptors <=> LiveEntry(fd)

\* C10 as stated: whenever the server clears the interest bit of a
\* connection or removes its registry entry, the connection's owner
\* reference is already cleared.
BitCleared(c) ==
    /\ sock[c].fd \in activeDescriptors
    /\ sock[c].fd \notin activeDescriptors'

EntryRemoved(c) ==
    /\ \E fd \in Fds : socketMap[fd] = c
    /\ \A fd \in Fds : socketMap'[fd] # c

OwnerCleared(c) ==
    /\ sock[c].owner
    /\ ~sock'[c].owner
    /\ ~sock'[c].destroyed

Calling(t) == stack'[t] # stack[t]

Delivered(c, k) == CountIn(events', c, k) > CountIn(events, c, k)

C11_AnnounceOutsideLocks ==
    [][\A t \in Threads, c \in ConnIds :
        (Calling(t) /\ Delivered(c, "tlsNewConnection"))
        => /\ srvMutex'.holder # t
           /\ sock'[c].mHolder # t]_vars

\* C12: a step in which a thread delivers socketBytesReceived or
\* socketDisconnected for a connection leaves that thread holding neither
\* the lock of that connection nor the server lock, on the read path, in a
\* close() of any thread and in the close() the drain issues.
C12_NotifyOutsideLocks ==
    [][\A t \in Threads, c \in ConnIds :
        (/\ Calling(t)
         /\ \/ Delivered(c, "socketBytesReceived")
            \/ Delivered(c, "socketDisconnected"))
        => /\ srvMutex'.holder # t
           /\ sock'[c].mHolder # t]_vars

\* C13: once shutdown() was called while the loop thread is in the
\* readiness wait, the loop thread eventually reaches Stopped with every
\* registered connection closed and the registry empty.
C13_ShutdownStops ==
    (gh.shutdownCalled /\ lp.pc = "select")
    ~> (lp.pc = "stopped" /\ Registered = {})

\* C14: the step of shutdown() clears the running flag and closes the
\* listening descriptor and nothing else: the registry, the interest set,
\* the connections (descriptor, handshake flag, owner, handler), the other
\* open descriptors, the listening descriptor's number and the calls in
\* progress are as before, and no event is delivered.
C14_ShutdownFrame ==
    [][(~gh.shutdownCalled /\ gh'.shutdownCalled)
        => /\ serverIsRunning /\ ~serverIsRunning'
           /\ osOpen' = osOpen \ {serverSocket}
           /\ UNCHANGED << serverSocket, serverIsShutdown, socketMap,
                           activeDescriptors, sock, events, stack, srvMutex,
                           lp >>]_vars

\* shutdown() has just run with an open, established connection registered:
\* the listener is closed, the loop has not reacted yet, and the connection
\* is still registered, watched, owned and not notified
C14_Witness ==
    /\ gh.shutdownCalled
    /\ ~serverIsRunning
    /\ serverSocket \notin osOpen
    /\ lp.pc = "select"
    /\ \E c \in gh.openAtShutdown :
        /\ c \in Registered
        /\ sock[c].fd \in activeDescriptors
        /\ sock[c].fd \in osOpen
        /\ sock[c].owner
        /\ Count(c, "socketDisconnected") = 0

\* C15: a listen() that passed its guard and failed at socket(), bind() or
\* ::listen() returns false and leaves the running flag false, the loop
\* thread not started, the listening descriptor invalid, the registry, the
\* interest set and the open descriptors as they were, and the guard still
\* admitting a later listen().
C15_ListenFailure ==
    [][(/\ up.pc = "idle"
        /\ up'.pc = "listen_ret"
        /\ ListenAdmitted
        /\ up'.ret = 0)
        => /\ ~serverIsRunning'
           /\ lp.pc = "idle" /\ lp' = lp
           /\ serverSocket' = InvalidFd
           /\ ListenAdmitted'
           /\ UNCHANGED << socketMap, activeDescriptors, osOpen, sock, stack >>]_vars

\* a listen() that passed the guard has returned false: nothing runs, the
\* descriptor is invalid and the guard is still open
C15_Witness ==
    /\ up.pc = "listen_ret"
    /\ up.ret = 0
    /\ ListenAdmitted
    /\ ~serverIsRunning
    /\ serverSocket = InvalidFd
    /\ lp.pc = "idle"

\* C16: when the loop handles a failed readiness wait and finds the running
\* flag true, that step clears the flag, closes the listening descriptor and
\* leaves run() for the drain; it delivers no event, starts no call and
\* changes neither the interest set nor the registry nor a connection. From
\* the drain on the loop thread never comes back to the loop.
InDrain(pc) == pc \in {"st_lock", "st_iter", "st_release", "st_unlock", "stopped"}

C16_FailStop ==
    /\ [][(lp.pc = "selfail" /\ lp'.pc # "selfail" /\ serverIsRunning)
            => /\ ~serverIsRunning'
               /\ osOpen' = osOpen \ {serverSocket}
               /\ lp'.pc = "st_lock"
               /\ UNCHANGED << activeDescriptors, socketMap, sock, events,
                               stack, serverSocket >>]_vars
    /\ [][InDrain(lp.pc) => InDrain(lp'.pc)]_vars

\* the wait failed although nobody called shutdown(): the loop has stopped
\* the server, closed the listener and is about to drain
C16_Witness ==
    /\ lp.pc = "st_lock"
    /\ ~gh.shutdownCalled
    /\ ~serverIsRunning
    /\ serverSocket \in Fds
    /\ serverSocket \notin osOpen
    /\ serverSocket \in activeDescriptors

\* C17: for a connection whose handshake has failed (SSL_accept reported 0
\* or a negative value) no event of any kind has been delivered, and the
\* socketReadyRead call that ran the handshake has returned a non-positive
\* value to the loop, which makes the loop close the connection.
C17_FailedHandshake ==
    \A c \in ConnIds :
        sock[c].hs \in {"fail", "error"}
        => /\ events[c] = << >>
           /\ (lp.pc = "after_rr" /\ lp.currentSocket = c)
              => (lp.result <= 0 /\ LoopClosesOn(lp.result))

\* C18: the state of a connection moves only PendingHandshake ->
\* Established -> Closed or PendingHandshake -> Closed; the teardown in
\* close() takes it to Closed; and once it is Closed no step sets the
\* handshake flag or makes the descriptor valid again.
ConnState(s) ==
    IF ~s.exists THEN "None"
    ELSE IF s.destroyed \/ s.fd = InvalidFd THEN "Closed"
    ELSE IF s.sslAccepted THEN "Established"
    ELSE "PendingHandshake"

ConnMoves ==
    {<< "None", "PendingHandshake" >>,
     << "PendingHandshake", "Established" >>,
     << "PendingHandshake", "Closed" >>,
     << "Established", "Closed" >>}

C18_ConnectionStates ==
    [][\A c \in ConnIds :
        LET a == ConnState(sock[c])
            b == ConnState(sock'[c])
        IN /\ a # b => << a, b >> \in ConnMoves
           /\ a = "Closed"
              => /\ sock'[c].fd = InvalidFd
                 /\ sock'[c].sslAccepted => sock[c].sslAccepted
           /\ (\E t \in Threads : /\ InFrame(t, "close", "cl_teardown")
                                  /\ Top(t).c = c
                                  /\ stack'[t] # stack[t])
              => b = "Closed"]_vars

\* the loop's socketReadyRead has run on a connection that the application
\* thread closed in between: it is Closed, and the call is about to return
\* a failed read
C18_Witness ==
    /\ InFrame("loop", "socketReadyRead", "rr_ret")
    /\ ConnState(sock[Top("loop").c]) = "Closed"
    /\ sock[Top("loop").c].sslAccepted
    /\ Top("loop").res <= 0
    /\ Count(Top("loop").c, "socketDisconnected") = 1

\* C19: there is at most one loop thread: a listen() that returns true has
\* found no loop thread, or one that has reached Stopped, and starts one; a
\* listen() that returns false starts none and leaves the loop thread
\* alone; and nothing else makes a loop thread begin run().
C19_OneLoopThread ==
    /\ [][(up.pc = "idle" /\ up'.pc = "listen_ret")
            => IF up'.ret = 1
               THEN lp.pc \in {"idle", "stopped"} /\ lp'.pc = "init"
               ELSE lp' = lp]_vars
    /\ [][(lp'.pc = "init" /\ lp.pc # "init")
            => /\ lp.pc \in {"idle", "stopped"}
               /\ up.pc = "idle" /\ up'.pc = "listen_ret"]_vars

\* listen() was called while the loop thread of the first listen() was in
\* the drain after shutdown(): it returned false and the drain goes on
C19_Witness ==
    /\ up.pc = "listen_ret"
    /\ up.ret = 0
    /\ gh.shutdownCalled
    /\ ~serverIsRunning
    /\ lp.pc = "st_iter"
    /\ Registered # {}

\* C20: when a socketReadyRead call on an established connection is about
\* to deliver its bytes and return a positive value, that value is the
\* number of bytes read in the call, the length of the data it delivers.
C20_ReturnsBytesRead ==
    (/\ InFrame("loop", "socketReadyRead", "rr_notify")
     /\ Top("loop").res > 0)
    => Top("loop").res = Len(Top("loop").buf)

\* the states in which the interface accepts each control call
Allowed(op) ==
    CASE op = "connect" -> {"Idle"}
      [] op = "disconnect" -> {"Connecting", "Connected"}
      [] op = "stop" -> {"Idle"}
      [] op = "setURL" -> {"Idle"}
      [] op = "setCaCertificate" -> {"Idle"}
      [] op = "setBufferSize" -> {"Stopped"}
      [] op = "start" -> {"Stopped"}

ControlCalls ==
    {"connect", "disconnect", "stop", "setURL", "setCaCertificate",
     "setBufferSize", "start"}

\* a call of the application returns in this step
CallReturns == wu' # wu /\ wu'.pc = "idle"

\* C21: a WebSocket control call that finds the client in a state where the
\* call is not permitted (connect outside Idle, disconnect outside
\* Connecting/Connected, stop outside Idle, setURL and setCaCertificate
\* outside Idle, setBufferSize and start outside Stopped) returns false and
\* leaves the state and the event queue as they were.
C21_RejectedCalls ==
    [][ (/\ CallReturns
         /\ wu'.op \in ControlCalls
         /\ wu'.seen \notin Allowed(wu'.op))
        => (/\ wu'.ret = "false"
            /\ ws'.state = ws.state
            /\ ws'.queue = ws.queue) ]_vars

\* stop() was called while Connected and was refused
C21_Witness ==
    /\ wu.pc = "idle"
    /\ wu.op = "stop"
    /\ wu.seen = "Connected"
    /\ wu.ret = "false"
    /\ ws.state = "Connected"
    /\ ws.queue = "empty"

\* everything start() acquired has been given back
WsReleased ==
    /\ ws.queue = "null"
    /\ ~ws.transportList
    /\ ws.rx # "alloc"
    /\ ws.tx # "alloc"

\* C22: once stop() has returned true, the task eventually reaches Stopped
\* with the event queue, the transport list and the buffers released.
C22_StopCompletes ==
    wh.stopAccepted ~> (ws.state = "Stopped" /\ WsReleased)

\* C22 (second part): no connection attempt is started once a Stop request
\* has been accepted.
C22_NoAttemptAfterStop ==
    [][ wh.stopAccepted
        => ~(wt.pc = "connect" /\ wt'.pc \in {"ct_notify", "ct_connected"})
      ]_vars

\* a datagram has been received and processed
Processed == dns.pc = "recv" /\ dns.messageSize >= 0 /\ dns.query # NoQuery

\* the datagram has a complete header and is a query
CompleteQuery(q) == q.cut = 0 /\ q.flags < 128

\* a standard query with one question for an address: OPCode 0, one
\* question, no answer and no authority records, a name that is a chain of
\* labels closed by the root label, QTYPE A or ALL, QCLASS IN or ANY, and
\* room for the answer in a DNS message
WellFormedQuery(q) ==
    /\ CompleteQuery(q)
    /\ (q.flags \div 8) % 16 = 0
    /\ q.counts[1] = 1 /\ q.counts[2] = 0 /\ q.counts[3] = 0
    /\ q.name \in ChainedNames
    /\ q.tail \in AnsweredTails
    /\ HeaderSize + Len(q.name) + Len(q.tail) + AnswerSize
          <= DNS_MAX_MESSAGE_SIZE

\* the A record that names the question and carries the configured address
ExpectedAnswer ==
    << 192, 12, 0, 1, 0, 1, 0, 0, 0, 0, 0, 4 >> \o ConfiguredIp

\* the response is marked as a response and announces n answer records
ResponseWith(n) ==
    /\ Len(Sent) >= HeaderSize
    /\ Sent[3] >= 128
    /\ << Sent[7], Sent[8] >> = << 0, n >>

RsMoves(t, pc) == InFrame(t, "removeSocket", pc) /\ stack'[t] # stack[t]

\* C24: removeSocket with the running flag set first clears the
\* connection's interest bit, then erases its registry entry and only then
\* releases the owner reference; when it returns the connection is in neither
\* the interest set nor the registry and has no owner.
C24_RemoveSocketOrder ==
    [][\A t \in Threads :
        /\ (RsMoves(t, "rs_enter") /\ serverIsRunning)
           => /\ sock[Top(t).c].fd \in activeDescriptors
              /\ sock[Top(t).c].fd \notin activeDescriptors'
              /\ InRegistry(socketMap', Top(t).c)
              /\ sock'[Top(t).c].owner
              /\ InFrame(t, "removeSocket", "rs_erase")'
        /\ RsMoves(t, "rs_erase")
           => /\ sock[Top(t).c].fd \notin activeDescriptors
              /\ InRegistry(socketMap, Top(t).c)
              /\ ~InRegistry(socketMap', Top(t).c)
              /\ sock'[Top(t).c].owner
              /\ InFrame(t, "removeSocket", "rs_release")'
        /\ RsMoves(t, "rs_release")
           => /\ sock[Top(t).c].owner
              /\ ~sock'[Top(t).c].owner
              /\ sock'[Top(t).c].fd \notin activeDescriptors'
              /\ ~InRegistry(socketMap', Top(t).c)
              /\ stack'[t] = Tail(stack[t])]_vars

\* close() on the application thread has come back from removeSocket, which
\* deregistered the connection while the server was running
C24_Witness ==
    /\ InFrame("user", "close", "cl_teardown")
    /\ serverIsRunning
    /\ sock[Top("user").c].erasures = 1
    /\ ~sock[Top("user").c].owner
    /\ sock[Top("user").c].fd \in osOpen
    /\ sock[Top("user").c].fd \notin activeDescriptors
    /\ ~InRegistry(socketMap, Top("user").c)

\* C25: removeSocket called while the running flag is false returns at once
\* and leaves the registry, the interest set and the connection's owner
\* reference as they were.
C25_RemoveSocketNoOp ==
    [][\A t \in Threads :
        (RsMoves(t, "rs_enter") /\ ~serverIsRunning)
        => /\ stack'[t] = Tail(stack[t])
           /\ UNCHANGED << socketMap, activeDescriptors, srvMutex >>
           /\ sock'[Top(t).c] = sock[Top(t).c]
           /\ sock[Top(t).c].owner]_vars

\* close() has come back from removeSocket after shutdown(): the connection
\* is still registered and still has its owner
C25_Witness ==
    /\ InFrame("user", "close", "cl_teardown")
    /\ ~serverIsRunning
    /\ gh.shutdownCalled
    /\ sock[Top("user").c].owner
    /\ sock[Top("user").c].erasures = 0
    /\ InRegistry(socketMap, Top("user").c)

\* the drain is between taking the server lock and clearing the registry
DrainIterating == lp.pc \in {"st_iter", "st_release"}

\* C26: while the drain iterates over the registry nothing modifies it: the
\* drain releases the owner before it closes a connection, so its close()
\* does not call removeSocket, no thread erases an entry, and the entries
\* disappear only through the final clear.
C26_DrainIteration ==
    [][DrainIterating
        => /\ socketMap' # socketMap
              => (lp.pc = "st_iter" /\ lp.todo = {} /\ Registered' = {}
                  /\ lp'.pc = "st_unlock")
           /\ \A c \in ConnIds : sock'[c].erasures <= sock[c].erasures
           /\ ~(stack'["loop"] # << >> /\ Head(stack'["loop"]).op = "removeSocket")
           /\ \A t \in Threads :
                 ~(/\ stack'[t] # << >>
                   /\ Head(stack'[t]).op = "removeSocket"
                   /\ Head(stack'[t]).pc # "rs_enter")]_vars

\* the drain has released the owner of a registered connection and the
\* application thread closes that connection meanwhile, without removeSocket
C26_Witness ==
    /\ DrainIterating
    /\ InFrame("user", "close", "cl_teardown")
    /\ InRegistry(socketMap, Top("user").c)
    /\ ~sock[Top("user").c].owner
    /\ sock[Top("user").c].erasures = 0

\* thread t takes the step of socketReadyRead that calls acceptSSL on c
AttemptsHandshake(t, c) ==
    /\ InFrame(t, "socketReadyRead", "rr_enter")
    /\ Top(t).c = c
    /\ stack'[t] # stack[t]
    /\ NeedsHandshake(sock[c])

\* the socketReadyRead frame of thread t after the step
ReadFrameAfter(t) ==
    IF Head(stack'[t]).op = "socketReadyRead"
    THEN Head(stack'[t])
    ELSE Head(Tail(stack'[t]))

\* C27: the handshake is not attempted when the connection is accepted; it
\* is attempted by the connection's first readReady and by no later one, so
\* acceptSSL runs at most once per connection, and the readReady that runs it
\* reads no application data.
C27_HandshakeOnce ==
    [][\A c \in ConnIds :
        /\ (~sock[c].exists /\ sock'[c].exists)
           => /\ lp.pc = "accept"
              /\ sock'[c].hs = "none"
              /\ ~sock'[c].sslAccepted
        /\ (sock'[c].hs # sock[c].hs /\ ~sock'[c].destroyed)
           => \E t \in Threads : AttemptsHandshake(t, c)
        /\ \A t \in Threads :
             /\ AttemptsHandshake(t, c)
                => /\ sock[c].hs = "none"
                   /\ sock'[c].hs # "none"
                   /\ peer' = peer
                   /\ events' = events
                   /\ ReadFrameAfter(t).buf = << >>
                   /\ ReadFrameAfter(t).pc = "rr_ret"
             /\ (InFrame(t, "socketReadyRead", "rr_enter") /\ Top(t).c = c
                 /\ stack'[t] # stack[t] /\ sock[c].hs = "none")
                => AttemptsHandshake(t, c)]_vars

\* a later readReady on a connection whose handshake was done by its first
\* readReady: it has read application data and has not run the handshake
C27_Witness ==
    /\ InFrame("loop", "socketReadyRead", "rr_unlock")
    /\ sock[Top("loop").c].hs = "ok"
    /\ sock[Top("loop").c].sslAccepted
    /\ Top("loop").buf # << >>

\* the loop thread takes a step from the given point of run()
LoopMoves(pc) == lp.pc = pc /\ lp' # lp

\* C28: when the loop finds the running flag false after a successful
\* readiness wait it leaves run() at once; between that check and the drain
\* it accepts no connection and calls no connection's readReady, whatever
\* the wait had reported ready.
C28_ExitAfterRecheck ==
    [][/\ (LoopMoves("recheck") /\ ~serverIsRunning)
          => /\ lp.readReady # {}
             /\ lp'.pc = "st_lock"
             /\ stack'["loop"] = << >>
             /\ UNCHANGED << backlog, sock, socketMap, activeDescriptors,
                             peer, events >>
       /\ LoopMoves("st_lock")
          => /\ lp'.pc = "st_iter"
             /\ stack'["loop"] = << >>
             /\ UNCHANGED << backlog, sock, socketMap, activeDescriptors,
                             peer, events >>]_vars

\* the drain has begun after the loop left a wait cycle that had reported
\* both a pending connection and a readable connection; neither was served
C28_Witness ==
    /\ lp.pc = "st_iter"
    /\ backlog > 0
    /\ \E c \in ConnIds :
          /\ sock[c].exists
          /\ sock[c].fd \in gh.abandoned
          /\ sock[c].hs = "none"
          /\ peer[c].inbox # << >>
          /\ InRegistry(socketMap, c)

\* C30: at every readiness wait the bound maxDescriptor is at least every
\* descriptor of the interest-set snapshot the loop waits on; it may be
\* larger than all of them, never smaller than one of them.
C30_BoundCoversSnapshot ==
    lp.pc = "select" => \A fd \in lp.readReady : fd <= lp.maxDescriptor

\* a wait with a stale bound: the bound is the descriptor of a connection
\* that was accepted and closed again and is above the whole snapshot
C30_Witness ==
    /\ lp.pc = "select"
    /\ lp.readReady # {}
    /\ \A fd \in lp.readReady : fd < lp.maxDescriptor
    /\ \E c \in ConnIds : sock[c].exists /\ sock[c].fd = InvalidFd

\* the loop thread returns from a socketReadyRead whose last read failed
FailedReadReturns ==
    /\ stack["loop"] # << >>
    /\ Top("loop").op = "socketReadyRead"
    /\ Top("loop").tested
    /\ stack'["loop"] = Tail(stack["loop"])

\* C29: when a read of readReady fails after bytes were accumulated in the
\* same call and a handler is set, socketBytesReceived with exactly those
\* bytes is delivered before readReady returns the non-positive result; with
\* no bytes accumulated nothing is delivered. The accumulated bytes are what
\* the peer sent first.
C29_BytesBeforeFailure ==
    [][/\ FailedReadReturns
          => LET f == Top("loop")
             IN /\ f.res <= 0
                /\ lp'.result = f.res
                /\ IF f.buf # << >> /\ (f.pc = "rr_notify" \/ sock[f.c].eventHandler)
                   THEN events' = [events EXCEPT ![f.c] = Append(@, BytesEvent(f.buf))]
                   ELSE events' = events
       /\ \A c \in ConnIds :
            (/\ InFrame("loop", "socketReadyRead", "rr_enter")
             /\ Top("loop").c = c
             /\ stack'["loop"] # stack["loop"]
             /\ ~NeedsHandshake(sock[c])
             /\ Top("loop")'.tested)
            => /\ events' = events
               /\ Top("loop")'.res <= 0
               /\ Top("loop")'.buf # << >>
                  => /\ ~sock[c].tlsFreed
                     /\ Top("loop")'.buf = SubSeq(Head(peer[c].inbox), 1,
                                                   Len(Top("loop")'.buf))
                     /\ (Top("loop")'.pc = "rr_unlock") = sock[c].eventHandler]_vars

\* readReady has returned a non-positive result after delivering the bytes
\* of the first read of a record whose second read failed
C29_Witness ==
    /\ lp.pc = "after_rr"
    /\ lp.result <= 0
    /\ events[lp.currentSocket] # << >>
    /\ events[lp.currentSocket][Len(events[lp.currentSocket])]
          = BytesEvent(SubSeq(LongRecord, 1, INITIAL_BUFFER_SIZE))
    /\ Len(peer[lp.currentSocket].inbox[1]) = Len(LongRecord) - INITIAL_BUFFER_SIZE

\* the drain holds the server lock and waits in releaseOwner() for the lock
\* of connection c
DrainWaitsFor(c) ==
    /\ lp.pc = "st_release"
    /\ lp.tlsSocket = c
    /\ srvMutex.holder = "loop"
    /\ sock[c].mHolder = "user"

\* close() on the application thread holds the lock of connection c and
\* waits in removeSocket() for the server lock
CloseWaitsFor(c) ==
    /\ InFrame("user", "removeSocket", "rs_enter")
    /\ Top("user").c = c
    /\ sock[c].mHolder = "user"
    /\ srvMutex.holder = "loop"

\* C31: the drain and a close() of a registered connection on another
\* thread never wait for each other's lock.
C31_NoTeardownDeadlock ==
    \A c \in ConnIds : ~(DrainWaitsFor(c) /\ CloseWaitsFor(c))

\* C32: the loop's lookup of a descriptor it found in the interest set and
\* readable never misses: _socketMap.at() does not throw.
C32_LookupFinds == ~(lp.pc = "lookup" /\ gh.crashed)

\* C33: a listen() called after shutdown(), once the loop thread has
\* finished the drain and is Stopped, passes the guard of listen() and, when
\* socket(), bind() and ::listen() succeed, returns true with the server
\* running again.
C33_ListenAfterStop ==
    [][(/\ up.pc = "idle" /\ up'.pc = "listen_ret"
        /\ gh.shutdownCalled
        /\ lp.pc = "stopped"
        /\ ~serverIsRunning)
        => /\ ListenAdmitted
           /\ up'.ret = 1 => serverIsRunning' /\ lp'.pc = "init"]_vars

\* C34: only shutdown() takes the server out of Running: the running flag
\* is never cleared by the loop thread after a failed wait, whatever
\* connections other threads close and whenever they close them.
C34_OnlyShutdownStops ==
    [][(serverIsRunning /\ ~serverIsRunning')
        => (~gh.shutdownCalled /\ gh'.shutdownCalled /\ lp' = lp)]_vars

\* thread t runs the destructor of c inside a call on c
DestroyedInsideCall(t, c) ==
    \E i, j \in DOMAIN stack[t] :
        /\ i < j
        /\ stack[t][i].c = c /\ stack[t][i].dtor
        /\ stack[t][j].c = c /\ ~stack[t][j].dtor

\* C35: a connection's descriptor is closed and its TLS handle freed once,
\* and no call goes on with the object after its destruction: the
\* destructor never runs inside a call on the same object, and the teardown
\* of close() never finds the handle already freed or the object destroyed.
C35_TornDownOnce ==
    /\ \A t \in Threads, c \in ConnIds : ~DestroyedInsideCall(t, c)
    /\ \A t \in Threads :
          InFrame(t, "close", "cl_teardown")
          => ~sock[Top(t).c].destroyed /\ ~sock[Top(t).c].tlsFreed

\* C36: for each connection no socketBytesReceived is delivered after its
\* socketDisconnected.
C36_NoBytesAfterDisconnect ==
    \A c \in ConnIds :
        \A i, j \in DOMAIN events[c] :
            (i < j /\ events[c][i].kind = "socketDisconnected")
            => events[c][j].kind # "socketBytesReceived"

\* C37: a connection attempt (one transition from Idle to Connecting) is
\* followed by at most one webSocketDisconnected.
C37_OneDisconnected == wh.disc <= 1

\* C38: while the state is Connecting or Connected the event queue holds no
\* Connect request (the request that caused the transition is still in the
\* slot only between setWebsocketState and xQueueReset in waitForEvent).
C38_NoStaleConnect ==
    (ws.state \in {"Connecting", "Connected"} /\ wt.pc # "wfe_reset")
        => ws.queue # "Connect"

\* C39: cleanup() never releases a receive or transmit buffer that an
\* earlier cleanup() already released.
C39_BuffersFreedOnce == ~wh.doubleFree

\* C40: after a receive call that failed with a negative size, the loop
\* iteration ends without a response handed to sendto.
C40_NoResponseAfterFailedReceive ==
    (dns.pc = "recv" /\ dns.messageSize < 0) => dns.responseSize = 0

====
